---- MODULE Spec2Model ----
(***************************************************************************)
(* One browser client of the two-seat fantasy draft (src/gameFlow.js,      *)
(* src/playerState.js, src/playerActions.js, third revision of             *)
(* src/game.js, src/uiModals.js).  Every exported handler is an action;    *)
(* every await / setTimeout inside a handler is a point where other        *)
(* handlers and remote notifications may run, so the asynchronous handlers *)
(* are split into one action per resumption.                               *)
(***************************************************************************)
EXTENDS Integers, Sequences, FiniteSets, TLC

VARIABLES gameMode, localPlayerNum, gameState, playerData, teams, tasks, modal,
          last, steps,
          isSyncing, remote, pushes, events, timers

vars == <<gameMode, localPlayerNum, gameState, playerData, teams, tasks, modal,
          last, steps, isSyncing, remote, pushes, events, timers>>

\* the synchronisation layer of game.js: the isSyncing flag, the document in the store,
\* this client's updates on their way to the store, the change notifications on their way
\* to this client, and the pending timers that clear the flag
syncVars == <<isSyncing, remote, pushes, events, timers>>

(***************************************************************************)
(* Bounds of the model.                                                    *)
(***************************************************************************)
\* asynchronous handlers (selectTeam, autoDraft, autoDraftFullRoster) that may be in flight at once
MaxInFlight == 1

\* steps of one session that get past a handler's guards: accepted calls, timer and
\* fetch completions, remote notifications (a call that returns at a guard is free)
MaxSteps == 7

(***************************************************************************)
(* Reference data.  The catalog of src/gameFlow.js:503-536 has 32 teams;   *)
(* the model keeps two of them, and the roster provider's listing for each.*)
(***************************************************************************)
TeamIds == {"KC", "BUF"}

Seats == {1, 2}

Phases == {"NAME_ENTRY", "DRAFTING", "COMPLETE"}

\* upstream listing per team: athlete id -> position abbreviation as the provider sends it
Athletes ==
    [KC  |-> [kc_rb |-> "RB"],
     BUF |-> [buf_pk |-> "PK"]]

DefId == [KC |-> "DEF-KC", BUF |-> "DEF-BUF"]

AthleteIds == UNION {DOMAIN Athletes[t] : t \in TeamIds}

\* the rest of each team's listing, fetched only by the full-roster runs of SpecFull
Bench ==
    [KC  |-> [kc_qb |-> "QB", kc_wr |-> "WR", kc_te |-> "TE"],
     BUF |-> [buf_rb |-> "RB", buf_wr |-> "WR", buf_wr2 |-> "WR"]]

PlayerIds == AthleteIds \cup {DefId[t] : t \in TeamIds}

\* position.abbreviation of a player object as fetched (the DEF pseudo-player is synthesized)
Abbr(p) ==
    IF \E t \in TeamIds : p = DefId[t] THEN "DEF"
    ELSE IF p \in AthleteIds
    THEN LET t == CHOOSE t \in TeamIds : p \in DOMAIN Athletes[t] IN Athletes[t][p]
    ELSE LET t == CHOOSE t \in TeamIds : p \in DOMAIN Bench[t] IN Bench[t][p]

\* the players a roster fetch of team t yields, DEF pseudo-player included
TeamPlayers(t) == DOMAIN Athletes[t] \cup {DefId[t]}

\* the same fetch when the whole listing of team t comes back
WholeTeamPlayers(t) == TeamPlayers(t) \cup DOMAIN Bench[t]

\* PK -> K, as every ingestion site does on its local copy
Normalize(position) == IF position = "PK" THEN "K" ELSE position

CanonicalSlots == {"QB", "RB", "WR1", "WR2", "TE", "FLEX", "DEF", "K"}

\* every key the code ever uses for rosterSlots
SlotKeys == CanonicalSlots \cup {"Flex"}

\* insertion order of Object.keys over a roster literal
SlotOrder == <<"QB", "RB", "WR1", "WR2", "TE", "FLEX", "Flex", "DEF", "K">>

\* JS null / undefined in a slot
Null == [id |-> "null", originalPosition |-> "null"]

NoTeam == [id |-> "null", shared |-> FALSE, rosterData |-> FALSE]

NoModal == [playerNum |-> 0, player |-> "null", slots |-> {}]

Other(n) == IF n = 1 THEN 2 ELSE 1

\* roster[slot] in JS: a missing key reads as undefined, falsy like null
Get(roster, slot) == IF slot \in DOMAIN roster THEN roster[slot] ELSE Null

Truthy(o) == o # Null

\* roster[slot] = o, adding the key when the object does not have it
Put(roster, slot, o) ==
    [k \in DOMAIN roster \cup {slot} |-> IF k = slot THEN o ELSE roster[k]]

\* Object.values(rosterSlots).filter(p => p).map(p => p.id)
RosterIds(roster) == {roster[k].id : k \in {k \in DOMAIN roster : Truthy(roster[k])}}

\* Object.values(rosterSlots).some(slotPlayer => slotPlayer && slotPlayer.id === id)
InRoster(roster, id) == \E k \in DOMAIN roster : Truthy(roster[k]) /\ roster[k].id = id

\* the roster literal of playerState.js (key FLEX)
EmptyRosterFLEX == [k \in CanonicalSlots |-> Null]

\* the roster literal of resetPlayer and of initializeCommonListeners (key Flex)
EmptyRosterFlex == [k \in (CanonicalSlots \ {"FLEX"}) \cup {"Flex"} |-> Null]

EmptyProfileFLEX ==
    [name |-> "", team |-> NoTeam, draftedPlayers |-> <<>>, rosterSlots |-> EmptyRosterFLEX]

EmptyProfileFlex ==
    [name |-> "", team |-> NoTeam, draftedPlayers |-> <<>>, rosterSlots |-> EmptyRosterFlex]

(***************************************************************************)
(* playerState.js                                                          *)
(***************************************************************************)
\* roster[slotId] && roster[slotId].id
hasPlayer(roster, slotId) == Truthy(Get(roster, slotId)) /\ Get(roster, slotId).id # ""

\* !playerData[playerNum].rosterSlots: the profile carries no roster map
RosterMissing(pd, n) == "rosterSlots" \notin DOMAIN pd[n]

\* a fullness test that accepts an occupant without an id
isFantasyRosterFullAnyOccupant(pd, n) ==
    IF RosterMissing(pd, n) THEN FALSE
    ELSE \A slot \in CanonicalSlots : Truthy(Get(pd[n].rosterSlots, slot))

isFantasyRosterFull(pd, n) ==
    IF RosterMissing(pd, n) THEN FALSE
    ELSE \A slot \in CanonicalSlots : hasPlayer(pd[n].rosterSlots, slot)

\* a slot finder that offers FLEX to a WR before WR2
findAvailableSlotForPlayerFlexFirst(pd, n, abbr) ==
    IF RosterMissing(pd, n) THEN "TypeError"
    ELSE
    LET roster == pd[n].rosterSlots
        position == Normalize(abbr)
    IN  IF position = "WR" /\ ~hasPlayer(roster, "WR1") THEN "WR1"
        ELSE IF position = "WR" /\ ~hasPlayer(roster, "FLEX") THEN "FLEX"
        ELSE IF position = "WR" /\ ~hasPlayer(roster, "WR2") THEN "WR2"
        ELSE IF position = "RB" /\ ~hasPlayer(roster, "RB") THEN "RB"
        ELSE IF position = "TE" /\ ~hasPlayer(roster, "TE") THEN "TE"
        ELSE IF position \in {"RB", "TE"} /\ ~hasPlayer(roster, "FLEX") THEN "FLEX"
        ELSE IF position \in {"QB", "K", "DEF"} /\ ~hasPlayer(roster, position)
             THEN position
        ELSE "none"

\* playerState.js:124-153, the exported slot finder (key FLEX); it reads
\* playerData[playerNum].rosterSlots without a guard, so a missing map raises
findAvailableSlotForPlayer_playerState(pd, n, abbr) ==
    IF RosterMissing(pd, n) THEN "TypeError"
    ELSE
    LET roster == pd[n].rosterSlots
        position == Normalize(abbr)
        isSlotEmpty(s) == ~hasPlayer(roster, s)
    IN  IF position = "QB" /\ isSlotEmpty("QB") THEN "QB"
        ELSE IF position = "K" /\ isSlotEmpty("K") THEN "K"
        ELSE IF position = "DEF" /\ isSlotEmpty("DEF") THEN "DEF"
        ELSE IF position = "RB" /\ isSlotEmpty("RB") THEN "RB"
        ELSE IF position = "RB" /\ isSlotEmpty("FLEX") THEN "FLEX"
        ELSE IF position = "WR" /\ isSlotEmpty("WR1") THEN "WR1"
        ELSE IF position = "WR" /\ isSlotEmpty("WR2") THEN "WR2"
        ELSE IF position = "WR" /\ isSlotEmpty("FLEX") THEN "FLEX"
        ELSE IF position = "TE" /\ isSlotEmpty("TE") THEN "TE"
        ELSE IF position = "TE" /\ isSlotEmpty("FLEX") THEN "FLEX"
        ELSE "none"

\* playerState.js:96-118: true when the map is missing, else !findAvailableSlotForPlayer
\* of a dummy player of that position
isPlayerPositionUndraftable(pd, n, originalPosition) ==
    IF RosterMissing(pd, n) THEN TRUE
    ELSE findAvailableSlotForPlayer_playerState(pd, n, originalPosition) = "none"

\* an undraftable test for which FLEX does not count for RB
isPlayerPositionUndraftableNoFlex(pd, n, originalPosition) ==
    IF RosterMissing(pd, n) THEN TRUE
    ELSE LET roster == pd[n].rosterSlots
         IN  CASE originalPosition \in {"QB", "RB", "TE", "K", "DEF"}
                     -> hasPlayer(roster, originalPosition)
               [] originalPosition = "WR"
                     -> hasPlayer(roster, "WR1") /\ hasPlayer(roster, "WR2")
                        /\ hasPlayer(roster, "FLEX")
               [] OTHER -> TRUE

\* src/unnamed/part_005:96-131, the revision with a switch of its own
isPlayerPositionUndraftable_part005(pd, n, originalPosition) ==
    IF RosterMissing(pd, n) THEN TRUE
    ELSE LET roster == pd[n].rosterSlots
         IN  CASE originalPosition = "QB" -> hasPlayer(roster, "QB")
               [] originalPosition = "RB" ->
                     hasPlayer(roster, "RB") /\ hasPlayer(roster, "FLEX")
               [] originalPosition = "WR" ->
                     hasPlayer(roster, "WR1") /\ hasPlayer(roster, "WR2")
                     /\ hasPlayer(roster, "FLEX")
               [] originalPosition = "TE" ->
                     hasPlayer(roster, "TE") /\ hasPlayer(roster, "FLEX")
               [] originalPosition = "K" -> hasPlayer(roster, "K")
               [] originalPosition = "DEF" -> hasPlayer(roster, "DEF")
               [] OTHER -> TRUE

\* a slot finder that never offers FLEX to a TE
findAvailableSlotForPlayerNoTeFlex(pd, n, abbr) ==
    IF RosterMissing(pd, n) THEN "none"
    ELSE LET found == findAvailableSlotForPlayer_playerState(pd, n, abbr)
         IN  IF Normalize(abbr) = "TE" /\ found = "FLEX" THEN "none" ELSE found

\* src/unnamed/part_005:133-165, the slot finder of that revision: null when the map is
\* missing, else the same first fit
findAvailableSlotForPlayer_part005(pd, n, abbr) ==
    IF RosterMissing(pd, n) THEN "none"
    ELSE
    LET roster == pd[n].rosterSlots
        position == Normalize(abbr)
    IN  IF position = "QB" /\ ~hasPlayer(roster, "QB") THEN "QB"
        ELSE IF position = "K" /\ ~hasPlayer(roster, "K") THEN "K"
        ELSE IF position = "DEF" /\ ~hasPlayer(roster, "DEF") THEN "DEF"
        ELSE IF position = "RB"
             THEN IF ~hasPlayer(roster, "RB") THEN "RB"
                  ELSE IF ~hasPlayer(roster, "FLEX") THEN "FLEX"
                  ELSE "none"
        ELSE IF position = "WR"
             THEN IF ~hasPlayer(roster, "WR1") THEN "WR1"
                  ELSE IF ~hasPlayer(roster, "WR2") THEN "WR2"
                  ELSE IF ~hasPlayer(roster, "FLEX") THEN "FLEX"
                  ELSE "none"
        ELSE IF position = "TE"
             THEN IF ~hasPlayer(roster, "TE") THEN "TE"
                  ELSE IF ~hasPlayer(roster, "FLEX") THEN "FLEX"
                  ELSE "none"
        ELSE "none"

switchTurn(gs) == [gs EXCEPT !.currentPlayer = IF gs.currentPlayer = 1 THEN 2 ELSE 1]

setGamePhase(gs, newPhase) == [gs EXCEPT !.phase = newPhase]

resetGameState == [currentPlayer |-> 1, phase |-> "NAME_ENTRY"]

\* Object.assign(target, source): fields of source replace, the others stay
ObjectAssign(target, source) ==
    [f \in DOMAIN target |-> IF f \in DOMAIN source THEN source[f] ELSE target[f]]

\* remotePlayerData is a record with a possibly missing entry per seat
updateLocalPlayerData(pd, remotePlayerData) ==
    [n \in Seats |->
        IF n \in DOMAIN remotePlayerData
        THEN ObjectAssign(pd[n], remotePlayerData[n])
        ELSE pd[n]]

(***************************************************************************)
(* gameFlow.js: the slot finder auto-draft uses (key Flex)                 *)
(***************************************************************************)
findAvailableSlotForPlayer(pd, n, abbr) ==
    LET roster == pd[n].rosterSlots
        position == Normalize(abbr)
        free(s) == ~Truthy(Get(roster, s))
    IN  IF position = "QB" /\ free("QB") THEN "QB"
        ELSE IF position = "K" /\ free("K") THEN "K"
        ELSE IF position = "DEF" /\ free("DEF") THEN "DEF"
        ELSE IF position = "RB" /\ free("RB") THEN "RB"
        ELSE IF position = "RB" /\ free("Flex") THEN "Flex"
        ELSE IF position = "WR" /\ free("WR1") THEN "WR1"
        ELSE IF position = "WR" /\ free("WR2") THEN "WR2"
        ELSE IF position = "WR" /\ free("Flex") THEN "Flex"
        ELSE IF position = "TE" /\ free("TE") THEN "TE"
        ELSE IF position = "TE" /\ free("Flex") THEN "Flex"
        ELSE "none"

(***************************************************************************)
(* game.js: updateLayout, the part that changes gameState                  *)
(***************************************************************************)
\* NAME_ENTRY -> DRAFTING
PhaseAfterNames(gs, pd) ==
    IF gs.phase = "NAME_ENTRY" /\ pd[1].name # "" /\ pd[2].name # ""
    THEN setGamePhase(gs, "DRAFTING")
    ELSE gs

\* the turn switch of updateLayout(true)
TurnAfterPick(gs, pd, shouldSwitchTurn) ==
    IF /\ shouldSwitchTurn
       /\ gs.phase = "DRAFTING"
       /\ ~isFantasyRosterFull(pd, Other(gs.currentPlayer))
       /\ (gameMode # "multiplayer" \/ localPlayerNum = gs.currentPlayer)
    THEN switchTurn(gs)
    ELSE gs

\* a completion check that is content with one full roster
PhaseAfterEitherFull(gs, pd) ==
    IF (isFantasyRosterFull(pd, 1) \/ isFantasyRosterFull(pd, 2)) /\ gs.phase # "COMPLETE"
    THEN setGamePhase(gs, "COMPLETE")
    ELSE gs

\* -> COMPLETE
PhaseAfterFull(gs, pd) ==
    IF isFantasyRosterFull(pd, 1) /\ isFantasyRosterFull(pd, 2) /\ gs.phase # "COMPLETE"
    THEN setGamePhase(gs, "COMPLETE")
    ELSE gs

updateLayout(gs, pd, shouldSwitchTurn) ==
    PhaseAfterFull(TurnAfterPick(PhaseAfterNames(gs, pd), pd, shouldSwitchTurn), pd)

(***************************************************************************)
(* Rolled team objects.  selectTeam stores a reference to the catalog      *)
(* entry, so rosterData attached to or deleted from it is seen through     *)
(* every reference; a team that came from a remote snapshot is a copy.     *)
(***************************************************************************)
HasRosterData(team) ==
    /\ team # NoTeam
    /\ IF team.shared THEN teams[team.id] ELSE team.rosterData

\* delete playerData[n].team.rosterData, on whatever object the seat's team is
DeleteRosterData(pd, n) ==
    IF pd[n].team # NoTeam /\ ~pd[n].team.shared
    THEN [pd EXCEPT ![n].team.rosterData = FALSE]
    ELSE pd

DeleteCatalogRosterData(pd, n) ==
    IF pd[n].team # NoTeam /\ pd[n].team.shared
    THEN [teams EXCEPT ![pd[n].team.id] = FALSE]
    ELSE teams

(***************************************************************************)
(* Initial states.  A local game starts from setupLocalGame, whose         *)
(* initializeCommonListeners replaces both profiles by the literal with    *)
(* key Flex; a multiplayer client starts from the playerState.js literals  *)
(* with the seat setupMultiplayerGame assigned to it.                      *)
(***************************************************************************)
\* the document of a room that was just created: the store keeps no null and no empty list
NewRoomDoc ==
    [gameState |-> [currentPlayer |-> 1, phase |-> "NAME_ENTRY"],
     playerData |-> [n \in Seats |-> [name |-> ""]]]

\* nothing is being synchronised
SyncIdle ==
    /\ isSyncing = FALSE
    /\ remote = NewRoomDoc
    /\ pushes = <<>>
    /\ events = {}
    /\ timers = 0

Init ==
    /\ \/ gameMode = "local" /\ localPlayerNum = 0
       \/ gameMode = "multiplayer" /\ localPlayerNum \in Seats
    /\ gameState = [currentPlayer |-> 1, phase |-> "NAME_ENTRY"]
    /\ playerData = IF gameMode = "local"
                    THEN [n \in Seats |-> EmptyProfileFlex]
                    ELSE [n \in Seats |-> EmptyProfileFLEX]
    /\ teams = [t \in TeamIds |-> FALSE]
    /\ tasks = {}
    /\ modal = NoModal
    /\ last = [op |-> "init", seat |-> 0, result |-> "ok"]
    /\ steps = 0
    /\ SyncIdle

\* history: the step that ran last and its outcome, and the number of steps so far
Step(op, n, result) ==
    /\ steps < MaxSteps
    /\ steps' = steps + 1
    /\ last' = [op |-> op, seat |-> n, result |-> result]

\* a step of a handler: it does not touch the synchronisation layer
Done(op, n, result) ==
    /\ Step(op, n, result)
    /\ UNCHANGED syncVars

\* a handler that returned at one of its guards (after its alert): nothing is touched
Rejected == UNCHANGED vars

\* a wrapper without the seat check
BlockedNever(n) == FALSE

\* withFirebaseSync: an action for a seat this client is not authoritative for is dropped
Blocked(n) == gameMode = "multiplayer" /\ n # localPlayerNum

BlockedCall(n) ==
    /\ Blocked(n)
    /\ Rejected

NameOf(n) == IF n = 1 THEN "P1" ELSE "P2"

(***************************************************************************)
(* playerActions.js                                                        *)
(***************************************************************************)
confirmName(n, input) ==
    /\ ~Blocked(n)
    /\ IF input = ""
       THEN Rejected
       ELSE /\ playerData' = [playerData EXCEPT ![n].name = input]
            /\ gameState' = updateLayout(gameState, playerData', FALSE)
            /\ Done("confirmName", n, "ok")
            /\ UNCHANGED <<gameMode, localPlayerNum, teams, tasks, modal>>

\* a reset that returns the game to name entry whoever is still named
GameStateAfterResetAlways(gs, pd) == resetGameState

\* resetPlayer: the game state is reset only when no seat is named any more
GameStateAfterReset(gs, pd) ==
    IF pd[1].name = "" /\ pd[2].name = "" THEN resetGameState ELSE gs

resetPlayer(n) ==
    /\ ~Blocked(n)
    /\ playerData' = [playerData EXCEPT ![n] = EmptyProfileFlex]
    /\ gameState' = updateLayout(GameStateAfterReset(gameState, playerData'),
                                 playerData', FALSE)
    /\ Done("resetPlayer", n, "ok")
    /\ UNCHANGED <<gameMode, localPlayerNum, teams, tasks, modal>>

(***************************************************************************)
(* gameFlow.js: assignPlayerToSlot                                         *)
(***************************************************************************)
\* the checks of assignPlayerToSlot in their order; "ok" when all pass
assignOutcome(gs, pd, n, p, slotId) ==
    IF n # gs.currentPlayer THEN "not_your_turn"
    ELSE IF InRoster(pd[n].rosterSlots, p) THEN "already_in_roster"
    ELSE IF pd[Other(n)].name # "" /\ InRoster(pd[Other(n)].rosterSlots, p)
         THEN "drafted_by_opponent"
    ELSE IF Len(pd[n].draftedPlayers) > 0 THEN "one_per_roll"
    ELSE IF Truthy(Get(pd[n].rosterSlots, slotId)) THEN "slot_occupied"
    ELSE "ok"

\* the occupant record assignPlayerToSlot stores: position as the player object carries it
ManualOccupant(p) == [id |-> p, originalPosition |-> Abbr(p)]

\* a commit that forgets to consume the roll
assignCommitNoMarker(pd, n, p, slotId) ==
    [pd EXCEPT ![n].rosterSlots = Put(@, slotId, ManualOccupant(p))]

\* the writes of an accepted assignment: the slot, then the one-pick-per-roll marker
assignCommit(pd, n, p, slotId) ==
    [pd EXCEPT ![n].rosterSlots = Put(@, slotId, ManualOccupant(p)),
               ![n].draftedPlayers = Append(@, [id |-> p, assignedSlot |-> slotId])]

\* the body of assignPlayerToSlot; op is the handler the user triggered
assignPlayerToSlot(op, n, p, slotId) ==
    LET outcome == assignOutcome(gameState, playerData, n, p, slotId)
        sanitized == DeleteRosterData(playerData, n)
    IN  /\ Done(op, n, outcome)
        /\ modal' = NoModal
        /\ IF outcome = "not_your_turn"
           THEN UNCHANGED <<gameState, playerData, teams>>
           ELSE /\ teams' = DeleteCatalogRosterData(playerData, n)
                /\ IF outcome # "ok"
                   THEN /\ playerData' = sanitized
                        /\ UNCHANGED gameState
                   ELSE /\ playerData' = assignCommit(sanitized, n, p, slotId)
                        /\ gameState' = updateLayout(gameState, playerData', TRUE)
        /\ UNCHANGED <<gameMode, localPlayerNum, tasks>>

(***************************************************************************)
(* gameFlow.js: draftPlayer, and the slot-choice prompt of uiModals.js     *)
(***************************************************************************)
\* the checks of draftPlayer before it picks a slot; "ok" when all pass
draftOutcome(gs, pd, n, p) ==
    IF n # gs.currentPlayer THEN "not_your_turn"
    ELSE IF InRoster(pd[n].rosterSlots, p) THEN "already_in_roster"
    ELSE IF Len(pd[n].draftedPlayers) > 0 THEN "one_per_roll"
    ELSE IF isFantasyRosterFull(pd, n) THEN "roster_full"
    ELSE "ok"

\* the buttons showSlotSelectionModal renders, and the ones it leaves enabled
ModalButtons(originalPosition) ==
    CASE originalPosition = "RB" -> {"RB", "Flex"}
      [] originalPosition = "WR" -> {"WR1", "WR2", "Flex"}
      [] originalPosition = "TE" -> {"TE", "Flex"}
      [] OTHER -> {}

\* a prompt that offers every slot still empty, whatever the position
EnabledButtonsAnyEmpty(roster, originalPosition) ==
    {s \in DOMAIN roster \cup {"Flex"} : ~Truthy(Get(roster, s))}

EnabledButtons(roster, originalPosition) ==
    {s \in ModalButtons(originalPosition) : ~Truthy(Get(roster, s))}

\* a slot choice that sends every direct pick to QB
targetSlotAlwaysQB(originalPosition) == "QB"

\* the slot implied by a position that needs no prompt
targetSlot(originalPosition) ==
    CASE originalPosition = "QB" -> "QB"
      [] originalPosition = "K" -> "K"
      [] originalPosition = "DEF" -> "DEF"

\* the card of player p is clicked for seat n; the card passes the normalized position
draftPlayer(n, p) ==
    LET originalPosition == Normalize(Abbr(p))
        outcome == draftOutcome(gameState, playerData, n, p)
    IN  /\ ~Blocked(n)
        /\ IF outcome # "ok"
           THEN Rejected
           ELSE IF originalPosition \in {"RB", "WR", "TE"}
           THEN /\ modal' = [playerNum |-> n, player |-> p,
                             slots |-> EnabledButtons(playerData[n].rosterSlots,
                                                      originalPosition)]
                /\ Done("draftPlayer", n, "prompt")
                /\ UNCHANGED <<gameMode, localPlayerNum, gameState, playerData, teams,
                               tasks>>
           ELSE assignPlayerToSlot("draftPlayer", n, p, targetSlot(originalPosition))

\* a slot button of the open prompt is clicked
chooseSlot(slotId) ==
    /\ modal # NoModal
    /\ slotId \in modal.slots
    /\ assignPlayerToSlot("assignPlayerToSlot", modal.playerNum, modal.player, slotId)

\* the prompt is cancelled
hideSlotSelectionModal ==
    /\ modal # NoModal
    /\ modal' = NoModal
    /\ Done("cancel", modal.playerNum, "ok")
    /\ UNCHANGED <<gameMode, localPlayerNum, gameState, playerData, teams, tasks>>

(***************************************************************************)
(* gameFlow.js: selectTeam.  The handler returns after arming its timers;  *)
(* the roll and the roster fetch run in the timer callbacks.               *)
(***************************************************************************)
Task(op, n, stage, ids, empty, attempts) ==
    [op |-> op, seat |-> n, stage |-> stage, ids |-> ids, empty |-> empty,
     attempts |-> attempts]

Room == Cardinality(tasks) < MaxInFlight

\* a roll that skips the turn check
selectTeamOutcomeAnyTurn(gs, pd, n) ==
    IF isFantasyRosterFull(pd, n) THEN "roster_full" ELSE "ok"

\* the guards of selectTeam in their order; "ok" when all pass
selectTeamOutcome(gs, pd, n) ==
    IF n # gs.currentPlayer THEN "not_your_turn"
    ELSE IF isFantasyRosterFull(pd, n) THEN "roster_full"
    ELSE "ok"

\* the guards of autoDraft and autoDraftFullRoster in their order; "ok" when all pass
autoDraftOutcome(gs, pd, n) ==
    IF n # gs.currentPlayer THEN "not_your_turn"
    ELSE IF pd[n].name = "" THEN "no_name"
    ELSE IF isFantasyRosterFull(pd, n) THEN "roster_full"
    ELSE "ok"

\* a roll that keeps the marker of the previous roll
selectTeamResetKeepsMarker(pd, n) == [pd EXCEPT ![n].team = NoTeam]

\* the reset selectTeam makes before the animation: no team, marker cleared
selectTeamReset(pd, n) == [pd EXCEPT ![n].team = NoTeam, ![n].draftedPlayers = <<>>]

selectTeam(n) ==
    LET outcome == selectTeamOutcome(gameState, playerData, n)
    IN  /\ ~Blocked(n)
        /\ IF outcome # "ok"
           THEN Rejected
           ELSE /\ Room
                /\ playerData' = selectTeamReset(playerData, n)
                /\ tasks' = tasks \cup {Task("selectTeam", n, "animating", {}, {}, 0)}
                /\ Done("selectTeam", n, "ok")
                /\ UNCHANGED <<gameMode, localPlayerNum, gameState, teams, modal>>

\* setTimeout(..., animationDuration): the random team becomes the seat's team
selectTeamRolled(task) ==
    /\ task \in tasks
    /\ task.op = "selectTeam" /\ task.stage = "animating"
    /\ \E t \in TeamIds :
          playerData' = [playerData EXCEPT
              ![task.seat].team = [id |-> t, shared |-> TRUE, rosterData |-> FALSE]]
    /\ tasks' = (tasks \ {task}) \cup {[task EXCEPT !.stage = "fetching"]}
    /\ Done("selectTeam.rolled", task.seat, "ok")
    /\ UNCHANGED <<gameMode, localPlayerNum, gameState, teams, modal>>

\* the roster fetch returns (or fails); rosterData lands on the seat's current team object
selectTeamFetched(task, fetched) ==
    LET n == task.seat
        team == playerData[n].team
    IN  /\ task \in tasks
        /\ task.op = "selectTeam" /\ task.stage = "fetching"
        /\ IF fetched /\ team # NoTeam
           THEN IF team.shared
                THEN /\ teams' = [teams EXCEPT ![team.id] = TRUE]
                     /\ playerData' = playerData
                ELSE /\ playerData' = [playerData EXCEPT ![n].team.rosterData = TRUE]
                     /\ teams' = teams
           ELSE UNCHANGED <<playerData, teams>>
        /\ gameState' = updateLayout(gameState, playerData', FALSE)
        /\ tasks' = tasks \ {task}
        /\ Done("selectTeam.fetched", n, IF fetched /\ team # NoTeam THEN "ok" ELSE "error")
        /\ UNCHANGED <<gameMode, localPlayerNum, modal>>

(***************************************************************************)
(* gameFlow.js: autoDraft                                                  *)
(***************************************************************************)
\* source cap on roster fetches: teams.length * 2
maxAttempts == Cardinality(TeamIds) * 2

autoDraft(n) ==
    LET outcome == autoDraftOutcome(gameState, playerData, n)
    IN  /\ ~Blocked(n)
        /\ IF outcome # "ok"
           THEN Rejected
           ELSE /\ Room
                /\ tasks' = tasks \cup {Task("autoDraft", n, "waiting", {}, {}, 0)}
                /\ Done("autoDraft", n, "ok")
                /\ UNCHANGED <<gameMode, localPlayerNum, gameState, playerData, teams,
                               modal>>

\* after delay(1500): both rosters' ids are read once, then the first fetch is issued
autoDraftSnapshot(task) ==
    /\ task \in tasks
    /\ task.op = "autoDraft" /\ task.stage = "waiting"
    /\ tasks' = (tasks \ {task}) \cup
                {[task EXCEPT !.stage = "searching",
                              !.ids = RosterIds(playerData[Other(task.seat)].rosterSlots)
                                      \cup RosterIds(playerData[task.seat].rosterSlots),
                              !.attempts = 1]}
    /\ Done("autoDraft.snapshot", task.seat, "ok")
    /\ UNCHANGED <<gameMode, localPlayerNum, gameState, playerData, teams, modal>>

\* the candidates of one fetched team: not in the ids read at the start, and with a free slot now
Draftable(pd, n, ids, t) ==
    {p \in TeamPlayers(t) :
        p \notin ids /\ findAvailableSlotForPlayer(pd, n, Abbr(p)) # "none"}

\* the occupant record auto-draft stores (it rewrote PK to K on the fetched object)
AutoOccupant(p) == [id |-> p, originalPosition |-> Normalize(Abbr(p))]

\* what the commit of autoDraft writes
autoDraftCommit(pd, n, p) ==
    [pd EXCEPT ![n].rosterSlots =
                   Put(@, findAvailableSlotForPlayer(pd, n, Abbr(p)), AutoOccupant(p)),
               ![n].team = NoTeam,
               ![n].draftedPlayers = <<>>]

\* a search loop without the attempts cap
autoDraftRetryForever(task) == [task EXCEPT !.attempts = @ + 1]

\* next attempt, or give up after maxAttempts
autoDraftRetry(task) ==
    IF task.attempts < maxAttempts
    THEN [task EXCEPT !.attempts = @ + 1]
    ELSE [task EXCEPT !.stage = "notfound"]

\* one roster fetch of the search loop returns: a team's players, no athletes, or an error
autoDraftFetched(task) ==
    LET n == task.seat IN
    /\ task \in tasks
    /\ task.op = "autoDraft" /\ task.stage = "searching"
    /\ \/ \E t \in TeamIds :
            IF Draftable(playerData, n, task.ids, t) # {}
            THEN \E p \in Draftable(playerData, n, task.ids, t) :
                    /\ playerData' = autoDraftCommit(playerData, n, p)
                    /\ tasks' = (tasks \ {task}) \cup {[task EXCEPT !.stage = "drafted"]}
                    /\ Done("autoDraft.fetched", n, "drafted")
            ELSE /\ tasks' = (tasks \ {task}) \cup {autoDraftRetry(task)}
                 /\ Done("autoDraft.fetched", n, "none")
                 /\ UNCHANGED playerData
       \/ /\ tasks' = (tasks \ {task}) \cup {autoDraftRetry(task)}
          /\ Done("autoDraft.fetched", n, "no_athletes")
          /\ UNCHANGED playerData
       \/ /\ tasks' = (tasks \ {task}) \cup {[task EXCEPT !.stage = "failed"]}
          /\ Done("autoDraft.fetched", n, "error")
          /\ UNCHANGED playerData
    /\ UNCHANGED <<gameMode, localPlayerNum, gameState, teams, modal>>

\* after the closing delay(1500): updateLayout(true), or updateLayout(false) after an error
autoDraftSettled(task) ==
    /\ task \in tasks
    /\ task.op = "autoDraft" /\ task.stage \in {"drafted", "notfound", "failed"}
    /\ gameState' = updateLayout(gameState, playerData, task.stage # "failed")
    /\ tasks' = tasks \ {task}
    /\ Done("autoDraft.settled", task.seat, task.stage)
    /\ UNCHANGED <<gameMode, localPlayerNum, playerData, teams, modal>>

(***************************************************************************)
(* gameFlow.js: autoDraftFullRoster                                        *)
(***************************************************************************)
\* positionMap of the fill loop: the categories a slot key accepts (none for an unknown key)
positionMap(slotId) ==
    CASE slotId = "QB" -> {"QB"}
      [] slotId = "RB" -> {"RB"}
      [] slotId = "WR1" -> {"WR"}
      [] slotId = "WR2" -> {"WR"}
      [] slotId = "TE" -> {"TE"}
      [] slotId = "K" -> {"K"}
      [] slotId = "DEF" -> {"DEF"}
      [] slotId = "Flex" -> {"RB", "WR", "TE"}
      [] OTHER -> {}

\* the pool entries the loop may put into slotId: not in allDraftedIds, category accepted
Eligible(pool, ids, slotId) ==
    {p \in pool : p \notin ids /\ Normalize(Abbr(p)) \in positionMap(slotId)}

\* the rosters the fill loop can end with, over the shuffles of the pool: slot i of the
\* snapshot's empty slots takes any eligible entry (the first one of the shuffle), or
\* stays as it is when there is none
RECURSIVE Fills(_, _, _, _, _)
Fills(roster, empty, i, ids, pool) ==
    IF i > Len(SlotOrder) THEN {roster}
    ELSE IF SlotOrder[i] \notin empty \/ Eligible(pool, ids, SlotOrder[i]) = {}
    THEN Fills(roster, empty, i + 1, ids, pool)
    ELSE UNION {Fills(Put(roster, SlotOrder[i], AutoOccupant(p)), empty, i + 1,
                      ids \cup {p}, pool) : p \in Eligible(pool, ids, SlotOrder[i])}

autoDraftFullRoster(n) ==
    LET outcome == autoDraftOutcome(gameState, playerData, n)
    IN  /\ ~Blocked(n)
        /\ IF outcome # "ok"
           THEN Rejected
           ELSE /\ Room
                /\ tasks' = tasks \cup {Task("autoDraftFullRoster", n, "waiting", {}, {}, 0)}
                /\ Done("autoDraftFullRoster", n, "ok")
                /\ UNCHANGED <<gameMode, localPlayerNum, gameState, playerData, teams,
                               modal>>

\* after delay(200): the empty slots and both rosters' ids are read, all fetches are issued
autoDraftFullRosterSnapshot(task) ==
    LET roster == playerData[task.seat].rosterSlots IN
    /\ task \in tasks
    /\ task.op = "autoDraftFullRoster" /\ task.stage = "waiting"
    /\ tasks' = (tasks \ {task}) \cup
                {[task EXCEPT !.stage = "fetching",
                              !.empty = {k \in DOMAIN roster : ~Truthy(roster[k])},
                              !.ids = RosterIds(playerData[Other(task.seat)].rosterSlots)
                                      \cup RosterIds(roster)]}
    /\ Done("autoDraftFullRoster.snapshot", task.seat, "ok")
    /\ UNCHANGED <<gameMode, localPlayerNum, gameState, playerData, teams, modal>>

\* the fill loop over the pool the settled fetches make, and the writes after it
autoDraftFullRosterFill(task, pool) ==
    LET n == task.seat IN
    /\ task \in tasks
    /\ task.op = "autoDraftFullRoster" /\ task.stage = "fetching"
    /\ \E roster \in Fills(playerData[n].rosterSlots, task.empty, 1, task.ids, pool) :
            /\ playerData' = [playerData EXCEPT ![n].rosterSlots = roster,
                                                ![n].team = NoTeam,
                                                ![n].draftedPlayers = <<>>]
            /\ Done("autoDraftFullRoster.fetched", n,
                    IF roster = playerData[n].rosterSlots THEN "none" ELSE "drafted")
    /\ tasks' = (tasks \ {task}) \cup {[task EXCEPT !.stage = "done"]}
    /\ UNCHANGED <<gameMode, localPlayerNum, gameState, teams, modal>>

\* Promise.all settles: the teams whose fetch succeeded make the pool, the loop fills
autoDraftFullRosterFetched(task) ==
    \E fetched \in SUBSET TeamIds :
        autoDraftFullRosterFill(task, UNION {TeamPlayers(t) : t \in fetched})

\* after the closing delay(1500): updateLayout(true)
autoDraftFullRosterSettled(task) ==
    /\ task \in tasks
    /\ task.op = "autoDraftFullRoster" /\ task.stage = "done"
    /\ gameState' = updateLayout(gameState, playerData, TRUE)
    /\ tasks' = tasks \ {task}
    /\ Done("autoDraftFullRoster.settled", task.seat, "ok")
    /\ UNCHANGED <<gameMode, localPlayerNum, playerData, teams, modal>>

(***************************************************************************)
(* game.js: the onValue handler of setupMultiplayerGame.  A document read  *)
(* from the store carries no null, no empty array and no empty object, so  *)
(* a profile arrives with its name, with team and draftedPlayers only when *)
(* set, and with rosterSlots holding only the occupied keys.               *)
(***************************************************************************)
\* occupants another client wrote; its slot finder (src/playerState.js:124-153) uses key FLEX
RemoteIds ==
    [n \in Seats |->
        IF n = 1
        THEN ("QB" :> "a_qb") @@ ("RB" :> "a_rb") @@ ("WR1" :> "a_wr1") @@
             ("WR2" :> "a_wr2") @@ ("TE" :> "a_te") @@ ("FLEX" :> "a_flex") @@
             ("DEF" :> "a_def") @@ ("K" :> "a_k")
        ELSE ("QB" :> "b_qb") @@ ("RB" :> "b_rb") @@ ("WR1" :> "b_wr1") @@
             ("WR2" :> "b_wr2") @@ ("TE" :> "b_te") @@ ("FLEX" :> "b_flex") @@
             ("DEF" :> "b_def") @@ ("K" :> "b_k")]

SlotCategory(slotId) ==
    CASE slotId \in {"WR1", "WR2", "FLEX"} -> "WR"
      [] OTHER -> slotId

FullRoster(n) ==
    [k \in CanonicalSlots |-> [id |-> RemoteIds[n][k], originalPosition |-> SlotCategory(k)]]

Named(n) == [name |-> NameOf(n)]

\* both names confirmed
NamedDoc ==
    [gameState |-> [currentPlayer |-> 1, phase |-> "DRAFTING"],
     playerData |-> [n \in Seats |-> Named(n)]]

\* seat o rolled KC and picked its running back; the turn went to the other seat
PickedDoc(o) ==
    [gameState |-> [currentPlayer |-> Other(o), phase |-> "DRAFTING"],
     playerData |->
        [n \in Seats |->
            IF n = o
            THEN [name |-> NameOf(o),
                  team |-> [id |-> "KC", shared |-> FALSE, rosterData |-> FALSE],
                  draftedPlayers |-> <<[id |-> "kc_rb", assignedSlot |-> "RB"]>>,
                  rosterSlots |-> [RB |-> [id |-> "kc_rb", originalPosition |-> "RB"]]]
            ELSE Named(n)]]

\* seat s has all eight slots occupied; the writer has nothing of the other seat's roster
FullDoc(s) ==
    [gameState |-> [currentPlayer |-> Other(s), phase |-> "DRAFTING"],
     playerData |->
        [n \in Seats |->
            IF n = s THEN [name |-> NameOf(s), rosterSlots |-> FullRoster(s)]
            ELSE Named(n)]]

\* seat o was reset on its client while the other seat stayed named
ResetDoc(o) ==
    [gameState |-> [currentPlayer |-> Other(o), phase |-> "DRAFTING"],
     playerData |-> [n \in Seats |-> IF n = o THEN [name |-> ""] ELSE Named(n)]]

\* the documents the store may deliver to the client seated at localPlayerNum
RemoteDocs ==
    {NamedDoc, PickedDoc(Other(localPlayerNum)), ResetDoc(Other(localPlayerNum))}
    \cup {FullDoc(s) : s \in Seats}

\* the body of the callback once it is past the isSyncing check
applyRemoteData(remoteData) ==
    IF remoteData.gameState = gameState /\ remoteData.playerData = playerData
    THEN UNCHANGED <<gameState, playerData>>
    ELSE /\ playerData' = updateLocalPlayerData(playerData, remoteData.playerData)
         /\ gameState' = updateLayout(ObjectAssign(gameState, remoteData.gameState),
                                      playerData', FALSE)

onValue(remoteData) ==
    /\ gameMode = "multiplayer"
    /\ applyRemoteData(remoteData)
    /\ Done("onValue", 0, "merged")
    /\ UNCHANGED <<gameMode, localPlayerNum, teams, tasks, modal>>

(***************************************************************************)
(* The client: any handler may be invoked for any seat at any time, every  *)
(* pending timer or fetch may complete, and in multiplayer a document may  *)
(* arrive.                                                                 *)
(***************************************************************************)
Next ==
    \/ \E n \in Seats : \E input \in {"", NameOf(n)} : confirmName(n, input)
    \/ \E n \in Seats : resetPlayer(n)
    \/ \E n \in Seats : selectTeam(n)
    \/ \E task \in tasks : selectTeamRolled(task)
    \/ \E task \in tasks, fetched \in BOOLEAN : selectTeamFetched(task, fetched)
    \/ \E n \in Seats : autoDraft(n)
    \/ \E task \in tasks : autoDraftSnapshot(task)
    \/ \E task \in tasks : autoDraftFetched(task)
    \/ \E task \in tasks : autoDraftSettled(task)
    \/ \E n \in Seats : autoDraftFullRoster(n)
    \/ \E task \in tasks : autoDraftFullRosterSnapshot(task)
    \/ \E task \in tasks : autoDraftFullRosterFetched(task)
    \/ \E task \in tasks : autoDraftFullRosterSettled(task)
    \/ \E n \in Seats, p \in PlayerIds : draftPlayer(n, p)
    \/ \E slotId \in SlotKeys : chooseSlot(slotId)
    \/ hideSlotSelectionModal
    \/ \E remoteData \in RemoteDocs : onValue(remoteData)
    \/ \E n \in Seats : BlockedCall(n)

Spec == Init /\ [][Next]_vars

(***************************************************************************)
(* Properties.  Every step that is not a stuttering step got past a        *)
(* handler's guards, so last' names the handler, the seat and the outcome  *)
(* of that step.                                                           *)
(***************************************************************************)
Roster(n) == playerData[n].rosterSlots

Marker(n) == playerData[n].draftedPlayers

ManualOps == {"draftPlayer", "assignPlayerToSlot"}

TurnOps == ManualOps \cup {"selectTeam", "autoDraft", "autoDraftFullRoster"}

PhaseRank(phase) ==
    CASE phase = "NAME_ENTRY" -> 0
      [] phase = "DRAFTING" -> 1
      [] phase = "COMPLETE" -> 2

\* the occupied (seat, slot) pairs
Occupied == {ns \in Seats \X SlotKeys : Truthy(Get(Roster(ns[1]), ns[2]))}

\* C1: no occupant id is held by more than one slot across both seats' rosters.
C1_NoDuplicateOccupant ==
    \A a \in Occupied, b \in Occupied :
        a # b => Roster(a[1])[a[2]].id # Roster(b[1])[b[2]].id

SinglePickBy(n) ==
    /\ last'.seat = n
    /\ \/ last'.op \in ManualOps /\ last'.result = "ok"
       \/ last'.op = "autoDraft.settled" /\ last'.result = "drafted"

\* C3: in phase DRAFTING, after a successful single pick by seat n the turn is with the
\* other seat if its roster is not full, and stays with n if it is full.
C3_TurnAfterSinglePick ==
    [][\A n \in Seats :
          (SinglePickBy(n) /\ gameState.phase = "DRAFTING" /\ gameState'.phase = "DRAFTING")
          => gameState'.currentPlayer =
                 IF isFantasyRosterFull(playerData', Other(n)) THEN n ELSE Other(n)]_vars

\* C4: a roll, auto-draft or manual pick invoked for a seat that does not hold the turn
\* is rejected and changes no roster, team, marker, phase or turn; the same call made
\* again is rejected again.
C4_OutOfTurnRejected ==
    [][(last'.op \in TurnOps /\ steps' # steps /\ last'.seat # gameState.currentPlayer)
          => /\ last'.result = "not_your_turn"
             /\ UNCHANGED <<gameState, playerData, teams, tasks>>
             /\ last'.seat # gameState'.currentPlayer]_vars

\* a slot was chosen in the prompt of a seat that had lost the turn meanwhile
C4_Witness ==
    /\ last.op = "assignPlayerToSlot"
    /\ last.result = "not_your_turn"
    /\ last.seat # gameState.currentPlayer

\* the five conditions C5 names, in the state of the call
C5_Conditions(n, p, slotId) ==
    /\ gameState.currentPlayer = n
    /\ ~InRoster(Roster(n), p)
    /\ ~InRoster(Roster(Other(n)), p)
    /\ Len(Marker(n)) = 0
    /\ ~Truthy(Get(Roster(n), slotId))

\* C5: assignPlayerToSlot(n, p, s) writes p into slot s of seat n exactly when it is n's
\* turn, p is on neither roster, n's marker is empty and s is empty; else it writes nothing.
C5_AssignWritesIffValid ==
    [][\A op \in ManualOps, n \in Seats, p \in PlayerIds, slotId \in SlotKeys :
          assignPlayerToSlot(op, n, p, slotId)
          => IF C5_Conditions(n, p, slotId)
             THEN playerData'[n].rosterSlots = Put(Roster(n), slotId, ManualOccupant(p))
             ELSE playerData'[n].rosterSlots = Roster(n)]_vars

RuleRejections == {"already_in_roster", "drafted_by_opponent", "one_per_roll", "slot_occupied"}

\* C6: a manual pick rejected for a roster rule leaves both profiles (roster, marker,
\* rolled team and its fetched roster listing), the phase and the turn as they were.
C6_RuleRejectionChangesNothing ==
    [][(last'.op \in ManualOps /\ steps' # steps /\ last'.result \in RuleRejections)
          => UNCHANGED <<gameState, playerData, teams>>]_vars

\* the step is an accepted manual assignment for seat n
ManualSuccess(n) == last'.op \in ManualOps /\ last'.seat = n /\ last'.result = "ok"

\* the step is an accepted selectTeam call of seat n (the roll begins)
SelectTeamRoll(n) == last'.op = "selectTeam" /\ last'.seat = n

\* the step replaces seat n's team: an accepted selectTeam, or the commit of a single or
\* a full auto-draft
RollStep(n) ==
    /\ last'.seat = n
    /\ \/ last'.op = "selectTeam"
       \/ last'.op = "autoDraft.fetched" /\ last'.result = "drafted"
       \/ last'.op = "autoDraftFullRoster.fetched"

\* the steps in which the code empties seat n's marker: the three above and the reset of
\* the seat
ClearStep(n) == RollStep(n) \/ (last'.seat = n /\ last'.op = "resetPlayer")

Cleared(n) == Len(Marker(n)) > 0 /\ Len(playerData'[n].draftedPlayers) = 0

\* C7 as stated: once seat n's marker is non-empty it stays so, and every manual pick of
\* seat n is rejected, until seat n rolls a team again.
C7_OnePickBetweenRolls ==
    [][\A n \in Seats :
          /\ ManualSuccess(n) => Len(Marker(n)) = 0
          /\ (Len(Marker(n)) > 0 /\ ~SelectTeamRoll(n)) => Len(playerData'[n].draftedPlayers) > 0]_vars

\* C7 as the code has it: a manual assignment succeeds only on an empty marker and leaves
\* it holding that one pick, so at most one succeeds between two clearings of the marker;
\* the marker is emptied by a roll and also by a committed auto-draft (single or full) and
\* by resetPlayer, after each of which one more manual pick succeeds without a roll.
C7_OnePickPerMarker ==
    [][\A n \in Seats :
          /\ ManualSuccess(n) =>
                /\ Len(Marker(n)) = 0
                /\ Len(playerData'[n].draftedPlayers) = 1
                /\ playerData'[n].draftedPlayers[1].id \in RosterIds(playerData'[n].rosterSlots)
          /\ Len(playerData'[n].draftedPlayers) <= 1
          /\ Cleared(n) => ClearStep(n)]_vars

\* a manual pick of a seat that holds an earlier occupant has just consumed the marker
C7_Witness ==
    /\ last.op \in ManualOps /\ last.result = "ok"
    /\ Len(Marker(last.seat)) = 1
    /\ Cardinality(RosterIds(Roster(last.seat))) >= 2

\* C8 as stated: the marker goes from non-empty to empty only in a step that rolls a new
\* team for the seat (selectTeam, autoDraft or autoDraftFullRoster), and it is empty
\* after every such roll.
C8_MarkerClearedOnlyByRoll ==
    [][\A n \in Seats :
          /\ Cleared(n) => RollStep(n)
          /\ RollStep(n) => Len(playerData'[n].draftedPlayers) = 0]_vars

\* C8 as the code has it: the marker goes from non-empty to empty only in a step that
\* rolls a new team for the seat or in resetPlayer of the seat, and it is empty after
\* every one of these steps.
C8_MarkerClearedByRollAutoDraftOrReset ==
    [][\A n \in Seats :
          /\ Cleared(n) => ClearStep(n)
          /\ ClearStep(n) => Len(playerData'[n].draftedPlayers) = 0]_vars

\* a seat that holds occupants has just started a roll: its marker is empty
C8_Witness ==
    /\ last.op = "selectTeam"
    /\ RosterIds(Roster(last.seat)) # {}
    /\ Len(Marker(last.seat)) = 0

BothNamed(pd) == pd[1].name # "" /\ pd[2].name # ""

BothFull(pd) == isFantasyRosterFull(pd, 1) /\ isFantasyRosterFull(pd, 2)

\* C9: the phase leaves NAME_ENTRY for DRAFTING in the first step after which both seats
\* are named, and never in a step that leaves a seat unnamed.
C9_DraftingIffBothNamed ==
    /\ [](gameState.phase = "NAME_ENTRY" => ~BothNamed(playerData))
    /\ [][(gameState.phase = "NAME_ENTRY" /\ gameState'.phase = "DRAFTING")
             => BothNamed(playerData')]_vars

AsyncWriteOps ==
    {"selectTeam.rolled", "selectTeam.fetched", "autoDraft.fetched",
     "autoDraftFullRoster.fetched"}

\* the slot keys of seat n whose content the step changes
WrittenSlots(n) ==
    {k \in SlotKeys : Get(playerData'[n].rosterSlots, k) # Get(Roster(n), k)}

\* C11: every write a resumed selectTeam, autoDraft or autoDraftFullRoster of seat n makes
\* to seat n's rolled team or roster is made while currentPlayer = n, and a roster write
\* goes to a slot that is empty with an id that is on neither roster at that moment.
C11_AsyncWritesRevalidate ==
    [][\A n \in Seats :
          (last'.op \in AsyncWriteOps /\ last'.seat = n /\ steps' # steps) =>
             /\ (playerData'[n] # playerData[n] \/ teams' # teams)
                   => gameState.currentPlayer = n
             /\ \A k \in WrittenSlots(n) :
                   /\ ~Truthy(Get(Roster(n), k))
                   /\ Get(playerData'[n].rosterSlots, k).id
                         \notin RosterIds(Roster(1)) \cup RosterIds(Roster(2))]_vars

\* C12: an occupied slot keeps its occupant in every step other than resetPlayer of the
\* seat.
C12_OccupantStays ==
    [][\A n \in Seats : \A k \in SlotKeys :
          (Truthy(Get(Roster(n), k)) /\ ~(last'.op = "resetPlayer" /\ last'.seat = n))
             => /\ Truthy(Get(playerData'[n].rosterSlots, k))
                /\ Get(playerData'[n].rosterSlots, k).id = Get(Roster(n), k).id]_vars

\* every step of selectTeam, draftPlayer/assignPlayerToSlot, autoDraft and autoDraftFullRoster
DraftingOps ==
    ManualOps \cup AsyncWriteOps \cup
    {"selectTeam", "autoDraft", "autoDraft.snapshot", "autoDraft.settled",
     "autoDraftFullRoster", "autoDraftFullRoster.snapshot", "autoDraftFullRoster.settled"}

\* C13: a step of a drafting operation taken while phase is NAME_ENTRY or COMPLETE leaves
\* both rosters as they are.
C13_RosterChangesOnlyInDrafting ==
    [][(last'.op \in DraftingOps /\ steps' # steps /\ gameState.phase # "DRAFTING")
          => \A n \in Seats : playerData'[n].rosterSlots = Roster(n)]_vars

(***************************************************************************)
(* The roster helpers of playerState.js applied to arbitrary rosters: a    *)
(* second specification whose initial states range over the contents a     *)
(* roster map can have (empty slot, occupant, occupant without an id, or   *)
(* no map at all) and whose steps are single calls, recorded in last.      *)
(***************************************************************************)
\* what a slot of a roster map can hold
FnSlotValues ==
    {Null, [id |-> "x", originalPosition |-> "QB"], [id |-> "", originalPosition |-> "QB"]}

\* how many slots of one roster hold an occupant without an id
MaxIdless == 1

FnRosters ==
    {r \in [CanonicalSlots -> FnSlotValues] :
        Cardinality({k \in CanonicalSlots : r[k] # Null /\ r[k].id = ""}) <= MaxIdless}

\* a profile whose rosterSlots is missing
ProfileWithoutRoster == [name |-> "", team |-> NoTeam, draftedPlayers |-> <<>>]

FnProfiles ==
    {[EmptyProfileFLEX EXCEPT !.rosterSlots = r] : r \in FnRosters}
    \cup {ProfileWithoutRoster}

\* the categories the callers pass, and a position that has no slot
FnCategories == {"QB", "RB", "WR", "TE", "K", "DEF", "LB"}

\* position abbreviations of player objects as the provider sends them
FnAbbrs == FnCategories \cup {"PK"}

InitFn ==
    /\ gameMode = "local"
    /\ localPlayerNum = 0
    /\ gameState = [currentPlayer |-> 1, phase |-> "DRAFTING"]
    /\ playerData \in {[n \in Seats |-> IF n = 1 THEN prof ELSE EmptyProfileFLEX] :
                          prof \in FnProfiles}
    /\ teams = [t \in TeamIds |-> FALSE]
    /\ tasks = {}
    /\ modal = NoModal
    /\ last = [op |-> "init", seat |-> 0, result |-> "ok"]
    /\ steps = 0
    /\ SyncIdle

Returned(op, n, arg, result) ==
    /\ last' = [op |-> op, seat |-> n, arg |-> arg, result |-> result]
    /\ UNCHANGED <<gameMode, localPlayerNum, gameState, playerData, teams, tasks, modal,
                   steps>>
    /\ UNCHANGED syncVars

CallIsFantasyRosterFull(n) ==
    Returned("isFantasyRosterFull", n, "", isFantasyRosterFull(playerData, n))

CallIsPlayerPositionUndraftable(n, c) ==
    Returned("isPlayerPositionUndraftable", n, c,
             isPlayerPositionUndraftable(playerData, n, c))

CallIsPlayerPositionUndraftable_part005(n, c) ==
    Returned("isPlayerPositionUndraftable_part005", n, c,
             isPlayerPositionUndraftable_part005(playerData, n, c))

CallFindAvailableSlotForPlayer(n, abbr) ==
    Returned("findAvailableSlotForPlayer", n, abbr,
             findAvailableSlotForPlayer_playerState(playerData, n, abbr))

CallFindAvailableSlotForPlayer_part005(n, abbr) ==
    Returned("findAvailableSlotForPlayer_part005", n, abbr,
             findAvailableSlotForPlayer_part005(playerData, n, abbr))

NextFn ==
    \/ \E n \in Seats : CallIsFantasyRosterFull(n)
    \/ \E n \in Seats : \E c \in FnCategories : CallIsPlayerPositionUndraftable(n, c)
    \/ \E n \in Seats : \E c \in FnCategories : CallIsPlayerPositionUndraftable_part005(n, c)
    \/ \E n \in Seats : \E abbr \in FnAbbrs : CallFindAvailableSlotForPlayer(n, abbr)
    \/ \E n \in Seats : \E abbr \in FnAbbrs : CallFindAvailableSlotForPlayer_part005(n, abbr)

SpecFn == InitFn /\ [][NextFn]_vars

\* slot k of seat n holds an occupant that carries a non-empty id
HoldsValidOccupant(n, k) ==
    LET roster == playerData[n].rosterSlots
    IN  k \in DOMAIN roster /\ roster[k] # Null /\ roster[k].id # ""

\* C14: isFantasyRosterFull(n) is true exactly when all 8 canonical slots of seat n hold an
\* occupant with a non-empty id, and false when the seat has no roster map.
C14_FullIffEightValidOccupants ==
    last.op = "isFantasyRosterFull" =>
       last.result =
          IF RosterMissing(playerData, last.seat) THEN FALSE
          ELSE Cardinality({k \in CanonicalSlots : HoldsValidOccupant(last.seat, k)}) = 8

\* the call answered true on a roster with 8 occupants
C14_Witness ==
    /\ last.op = "isFantasyRosterFull" /\ last.seat = 1 /\ last.result = TRUE
    /\ \A k \in CanonicalSlots : playerData[1].rosterSlots[k] # Null

\* the slots a category may go to, in the order they are tried
AllowedList(c) ==
    CASE c = "QB" -> <<"QB">>
      [] c = "K" -> <<"K">>
      [] c = "DEF" -> <<"DEF">>
      [] c = "RB" -> <<"RB", "FLEX">>
      [] c = "WR" -> <<"WR1", "WR2", "FLEX">>
      [] c = "TE" -> <<"TE", "FLEX">>
      [] OTHER -> <<>>

AllowedSet(c) == {AllowedList(c)[i] : i \in 1..Len(AllowedList(c))}

UndraftableOps == {"isPlayerPositionUndraftable", "isPlayerPositionUndraftable_part005"}

FirstFit(n, abbr) ==
    LET list == AllowedList(IF abbr = "PK" THEN "K" ELSE abbr)
        free == {i \in 1..Len(list) : ~HoldsValidOccupant(n, list[i])}
    IN  IF free = {} THEN "none"
        ELSE list[CHOOSE i \in free : \A j \in free : i <= j]

\* C16: on a roster map, findAvailableSlotForPlayer returns the first slot without an
\* occupant in the category's ordered list (so FLEX only when the primary slots are
\* taken), none when there is no such slot, and the call changes no state.
C16_FindIsFirstFit ==
    [][(last'.op = "findAvailableSlotForPlayer" /\ ~RosterMissing(playerData, last'.seat))
          => /\ last'.result = FirstFit(last'.seat, last'.arg)
             /\ UNCHANGED <<gameState, playerData, teams, tasks, modal>>]_vars

\* a WR was sent to FLEX
C16_Witness ==
    /\ last.op = "findAvailableSlotForPlayer" /\ last.seat = 1 /\ last.arg = "WR"
    /\ last.result = "FLEX"

Category(p) == Normalize(Abbr(p))

\* the preconditions C18 names, in the state of the call
C18_Pre(n, p) ==
    /\ Category(p) \in {"QB", "K", "DEF"}
    /\ gameState.currentPlayer = n
    /\ p \notin RosterIds(Roster(1)) \cup RosterIds(Roster(2))
    /\ Len(Marker(n)) = 0
    /\ ~Truthy(Get(Roster(n), Category(p)))

FirstSlot(p) == findAvailableSlotForPlayer([n \in Seats |-> EmptyProfileFlex], 1, Abbr(p))

\* who holds each pool player (0: nobody); a seat holds at most one player per slot
Holdings ==
    {h \in [PlayerIds -> {0} \cup Seats] :
        \A n \in Seats : \A p, q \in PlayerIds :
            (h[p] = n /\ h[q] = n /\ p # q) => FirstSlot(p) # FirstSlot(q)}

\* the roster holding the players of S
HeldRoster(S) ==
    [k \in DOMAIN EmptyRosterFlex |->
        IF \E p \in S : FirstSlot(p) = k
        THEN AutoOccupant(CHOOSE p \in S : FirstSlot(p) = k)
        ELSE Null]

InitAuto ==
    /\ gameMode = "local" /\ localPlayerNum = 0
    /\ \E h \in Holdings, cp \in Seats :
          /\ gameState = [currentPlayer |-> cp, phase |-> "DRAFTING"]
          /\ playerData =
                [n \in Seats |->
                    [EmptyProfileFlex EXCEPT
                        !.name = NameOf(n),
                        !.rosterSlots = HeldRoster({p \in PlayerIds : h[p] = n})]]
    /\ teams = [t \in TeamIds |-> FALSE]
    /\ tasks = {}
    /\ modal = NoModal
    /\ last = [op |-> "init", seat |-> 0, result |-> "ok"]
    /\ steps = 0
    /\ SyncIdle

\* the steps a pending autoDraft run still takes at most: snapshot, fetches, closing step
PendingSteps(task) ==
    CASE task.stage = "waiting" -> maxAttempts + 2
      [] task.stage = "searching" -> maxAttempts - task.attempts + 2
      [] OTHER -> 1

RECURSIVE SumPending(_)
SumPending(S) ==
    IF S = {} THEN 0
    ELSE LET t == CHOOSE x \in S : TRUE IN PendingSteps(t) + SumPending(S \ {t})

\* a handler call that adds `extra` continuation steps still fits the budget
CanFinish(extra) == steps + 1 + SumPending(tasks) + extra <= MaxSteps

\* a timer or fetch of a pending autoDraft run completes
AutoDraftProgress ==
    \E task \in tasks :
        autoDraftSnapshot(task) \/ autoDraftFetched(task) \/ autoDraftSettled(task)

NextAuto ==
    \/ \E n \in Seats : CanFinish(maxAttempts + 2) /\ autoDraft(n)
    \/ \E n \in Seats, p \in PlayerIds : CanFinish(0) /\ draftPlayer(n, p)
    \/ \E task \in tasks : autoDraftSnapshot(task)
    \/ \E task \in tasks : autoDraftFetched(task)
    \/ \E task \in tasks : autoDraftSettled(task)

SpecAuto == InitAuto /\ [][NextAuto]_vars /\ WF_vars(AutoDraftProgress)

\* the search never makes more than maxAttempts roster attempts
AttemptsCapped == \A t \in tasks : t.op = "autoDraft" => t.attempts <= maxAttempts

\* the slots of seat n whose content changes in a step
ChangedSlots(n) ==
    {k \in SlotKeys : Get(playerData'[n].rosterSlots, k) # Get(playerData[n].rosterSlots, k)}

\* a step of an autoDraft run
AutoDraftStep ==
    /\ steps' # steps
    /\ last'.op \in {"autoDraft", "autoDraft.snapshot", "autoDraft.fetched",
                     "autoDraft.settled"}

\* what a step of a run may write: nothing, except that the fetch that finds a candidate
\* fills one empty slot of the acting seat and ends the search; the search gives up only
\* at the attempts cap
AutoDraftStepEffect ==
    LET n == last'.seat IN
    /\ playerData'[Other(n)] = playerData[Other(n)]
    /\ IF last'.op = "autoDraft.fetched" /\ last'.result = "drafted"
       THEN /\ \E k \in SlotKeys :
                  /\ ChangedSlots(n) = {k}
                  /\ ~Truthy(Get(playerData[n].rosterSlots, k))
                  /\ Truthy(Get(playerData'[n].rosterSlots, k))
            /\ \E t \in tasks :
                  /\ t.op = "autoDraft" /\ t.seat = n /\ t.stage = "searching"
                  /\ tasks' = (tasks \ {t}) \cup {[t EXCEPT !.stage = "drafted"]}
       ELSE playerData' = playerData
    /\ \A t \in tasks' \ tasks :
          t.stage = "notfound" =>
             \E u \in tasks : /\ u.stage = "searching" /\ u.attempts = maxAttempts
                              /\ t = [u EXCEPT !.stage = "notfound"]

\* C19: every autoDraft run ends; it makes at most maxAttempts (2 x number of teams)
\* roster attempts; the only write of a run is the one fetch that finds a candidate, which
\* fills one empty slot of the acting seat and ends the search; a run whose attempts are
\* exhausted reports "not found" having written nothing.
C19_AutoDraftEndsWithAtMostOnePick ==
    /\ []AttemptsCapped
    /\ [][AutoDraftStep => AutoDraftStepEffect]_vars
    /\ \A n \in Seats :
          (\E t \in tasks : t.seat = n) ~> (\A t \in tasks : t.seat # n)

\* a run that exhausted its attempts has reported that no player was found
C19_Witness ==
    /\ last.op = "autoDraft.settled" /\ last.result = "notfound"
    /\ tasks = {}

(***************************************************************************)
(* autoDraftFullRoster runs over whole team listings.  The runs start from *)
(* the positions a game can be in once both names are entered: the local   *)
(* game with the rosters its setup builds (key Flex), the multiplayer game *)
(* with the rosters of playerState.js (key FLEX); each seat holds some of  *)
(* the early picks, and either seat is on turn.                            *)
(***************************************************************************)
\* the players already picked when a run starts
EarlyPicks == {"kc_qb", "buf_rb", "DEF-BUF"}

\* roster with the keys of `empty` and the occupants of `roster`
Reshape(roster, empty) == [k \in DOMAIN empty |-> Get(roster, k)]

InitFull ==
    /\ \/ gameMode = "local" /\ localPlayerNum = 0
       \/ gameMode = "multiplayer" /\ localPlayerNum \in Seats
    /\ \E cp \in Seats, S1 \in SUBSET EarlyPicks, S2 \in SUBSET EarlyPicks :
          /\ S1 \cap S2 = {}
          /\ gameState = [currentPlayer |-> cp, phase |-> "DRAFTING"]
          /\ playerData =
                [n \in Seats |->
                    LET profile == IF gameMode = "local" THEN EmptyProfileFlex
                                   ELSE EmptyProfileFLEX
                    IN  [profile EXCEPT
                            !.name = NameOf(n),
                            !.rosterSlots = Reshape(HeldRoster(IF n = 1 THEN S1 ELSE S2),
                                                    profile.rosterSlots)]]
    /\ teams = [t \in TeamIds |-> FALSE]
    /\ tasks = {}
    /\ modal = NoModal
    /\ last = [op |-> "init", seat |-> 0, result |-> "ok"]
    /\ steps = 0
    /\ SyncIdle

\* the pool of a run whose fetches of the teams in `fetched` succeeded
WholePool(fetched) == UNION {WholeTeamPlayers(t) : t \in fetched}

NextFull ==
    \/ \E n \in Seats : autoDraftFullRoster(n)
    \/ \E task \in tasks : autoDraftFullRosterSnapshot(task)
    \/ \E task \in tasks, fetched \in SUBSET TeamIds :
          autoDraftFullRosterFill(task, WholePool(fetched))
    \/ \E task \in tasks : autoDraftFullRosterSettled(task)

SpecFull == InitFull /\ [][NextFull]_vars

\* the pool holds undrafted players enough to give every slot an eligible one of its own
EnoughFor(pool, ids) ==
    LET U(c) == Cardinality({p \in pool \ ids : Category(p) = c}) IN
    /\ U("QB") >= 1 /\ U("RB") >= 1 /\ U("WR") >= 2 /\ U("TE") >= 1
    /\ U("K") >= 1 /\ U("DEF") >= 1
    /\ U("RB") + U("WR") + U("TE") >= 5

\* the run of `task` fills from `pool` with all 8 slots of its seat empty and a pool that
\* serves every slot
C20_Pre(task, pool) ==
    LET roster == playerData[task.seat].rosterSlots IN
    /\ Cardinality(DOMAIN roster) = 8
    /\ task.empty = DOMAIN roster
    /\ \A k \in DOMAIN roster : ~Truthy(roster[k])
    /\ EnoughFor(pool, RosterIds(playerData[Other(task.seat)].rosterSlots))

\* the two rosters share no id
NoSharedId(pd) == RosterIds(pd[1].rosterSlots) \cap RosterIds(pd[2].rosterSlots) = {}

\* C20: an autoDraftFullRoster(n) run that starts with all 8 slots of seat n empty and a
\* pool holding an undrafted eligible player for every slot ends with isFantasyRosterFull(n)
\* true and with no id of seat n's roster on the opponent's roster.
C20_FullRosterRunFillsRoster ==
    [][\A task \in tasks, fetched \in SUBSET TeamIds :
          (autoDraftFullRosterFill(task, WholePool(fetched)) /\ C20_Pre(task, WholePool(fetched)))
             => /\ isFantasyRosterFull(playerData', task.seat)
                /\ NoSharedId(playerData')]_vars

\* what such a run does end with: every slot key the fill loop knows is filled, the key
\* FLEX is not, the full-roster check is false, and the rosters share no id
FullRosterRunOutcome ==
    [][\A task \in tasks, fetched \in SUBSET TeamIds :
          (autoDraftFullRosterFill(task, WholePool(fetched)) /\ C20_Pre(task, WholePool(fetched)))
             => LET roster == playerData'[task.seat].rosterSlots IN
                /\ \A k \in DOMAIN roster : Truthy(roster[k]) <=> positionMap(k) # {}
                /\ ~isFantasyRosterFull(playerData', task.seat)
                /\ NoSharedId(playerData')]_vars

\* a run of that kind has just filled the roster
FullRosterRunDone ==
    /\ last.op = "autoDraftFullRoster.fetched" /\ last.result = "drafted"
    /\ \E n \in Seats :
          /\ last.seat = n
          /\ Cardinality({k \in DOMAIN playerData[n].rosterSlots :
                             Truthy(playerData[n].rosterSlots[k])}) >= 7

\* the task of seat n after a step, if it is still pending
StageAfter(task) ==
    {t.stage : t \in {t \in tasks' : t.op = task.op /\ t.seat = task.seat}}

\* C21: when the roster fetch fails for every team, autoDraftFullRoster leaves every slot of
\* the acting seat as it was and ends in its reported-failure outcome, not in the success
\* outcome.
C21_TotalFetchFailureIsReported ==
    [][\A task \in tasks :
          autoDraftFullRosterFill(task, WholePool({}))
             => /\ playerData'[task.seat].rosterSlots = playerData[task.seat].rosterSlots
                /\ "done" \notin StageAfter(task)]_vars

\* what the run does when every fetch failed: the slots stay, and it goes on to the
\* success ending
TotalFetchFailureOutcome ==
    [][\A task \in tasks :
          autoDraftFullRosterFill(task, WholePool({}))
             => /\ playerData'[task.seat].rosterSlots = playerData[task.seat].rosterSlots
                /\ StageAfter(task) = {"done"}]_vars

\* the position categories of the spec
Categories == {"QB", "RB", "WR", "TE", "K", "DEF"}

\* the occupants of seat n's roster in playerData pd
Occupants(pd, n) ==
    {pd[n].rosterSlots[k] : k \in {k \in DOMAIN pd[n].rosterSlots :
                                      Truthy(pd[n].rosterSlots[k])}}

\* C30: every occupant stored in a roster slot has originalPosition in
\* {QB, RB, WR, TE, K, DEF}; a kicker listed upstream as PK is stored with category K on
\* the manual, single auto-draft and full auto-draft paths alike.
C30_OccupantsHaveCategory ==
    \A n \in Seats : \A o \in Occupants(playerData, n) : o.originalPosition \in Categories

\* the two auto-draft paths store categories only
AutoDraftStoresCategory ==
    [][last'.op \in {"autoDraft.fetched", "autoDraftFullRoster.fetched"}
          => \A n \in Seats :
                \A o \in Occupants(playerData', n) \ Occupants(playerData, n) :
                    o.originalPosition \in Categories]_vars

\* the seats whose profile arrives in remoteData without a rosterSlots map
SeatsWithoutRoster(remoteData) ==
    {n \in Seats : "rosterSlots" \notin DOMAIN remoteData.playerData[n]}

\* C25: applying a remote snapshot in which a seat's rosterSlots is absent leaves that
\* seat's local rosterSlots equal to the canonical map of 8 empty slots, whatever the local
\* roster held before.
C25_AbsentRosterBecomesEmpty ==
    [][\A remoteData \in RemoteDocs :
          onValue(remoteData)
             => \A n \in SeatsWithoutRoster(remoteData) :
                   playerData'[n].rosterSlots = EmptyRosterFLEX]_vars

\* what the merge does with such a snapshot: the seat's local rosterSlots stays as it was
AbsentRosterKeepsLocal ==
    [][\A remoteData \in RemoteDocs :
          onValue(remoteData)
             => \A n \in SeatsWithoutRoster(remoteData) :
                   playerData'[n].rosterSlots = playerData[n].rosterSlots]_vars

\* C26: in every reachable state each seat's rosterSlots has exactly the 8 canonical keys
\* QB, RB, WR1, WR2, TE, FLEX, DEF, K.
C26_RosterHasCanonicalKeys ==
    \A n \in Seats : DOMAIN playerData[n].rosterSlots = CanonicalSlots

\* the multiplayer client starts with the canonical keys; the local game never has them
CanonicalKeysByMode ==
    /\ gameMode = "local" => \A n \in Seats : "FLEX" \notin DOMAIN playerData[n].rosterSlots
    /\ (gameMode = "multiplayer" /\ steps = 0) => C26_RosterHasCanonicalKeys

(***************************************************************************)
(* game.js: syncWithFirebase, withFirebaseSync and the onValue callback,   *)
(* with the store between them.  The client is in a multiplayer room with  *)
(* both names confirmed.  A wrapped handler's push starts when the handler *)
(* returns, also when it returned at a guard, so a push may start in any   *)
(* state.  The other client is the writer of the documents it can push.    *)
(***************************************************************************)
\* updates of this client that may be on their way to the store at once
MaxPushes == 2

\* a JSON copy of a rolled team that keeps the fetched roster listing
copiedTeam(team) == [id |-> team.id, shared |-> FALSE, rosterData |-> HasRosterData(team)]

\* the JSON copy of a rolled team after `delete team.rosterData`: id, name and logo
sanitizedTeam(team) == [id |-> team.id, shared |-> FALSE, rosterData |-> FALSE]

\* the keys of a roster that hold an occupant
OccupiedKeys(roster) == {k \in DOMAIN roster : Truthy(roster[k])}

\* the fields of a profile the store keeps: it drops null, the empty list and a map
\* whose values are all null
StoredFields(profile) ==
    {"name"}
    \cup (IF profile.team # NoTeam THEN {"team"} ELSE {})
    \cup (IF profile.draftedPlayers # <<>> THEN {"draftedPlayers"} ELSE {})
    \cup (IF OccupiedKeys(profile.rosterSlots) # {} THEN {"rosterSlots"} ELSE {})

\* a sanitized profile as the store keeps it
StoredProfile(profile) ==
    [f \in StoredFields(profile) |->
        CASE f = "name" -> profile.name
          [] f = "team" -> sanitizedTeam(profile.team)
          [] f = "draftedPlayers" -> profile.draftedPlayers
          [] f = "rosterSlots" ->
                [k \in OccupiedKeys(profile.rosterSlots) |-> profile.rosterSlots[k]]]

\* the document update(gameRef, ...) writes: the whole gameState and both profiles
sanitizedDoc(gs, pd) ==
    [gameState |-> gs, playerData |-> [n \in Seats |-> StoredProfile(pd[n])]]

\* a failure handling that takes the rosters back
rolledBackSyncError(pd) == [n \in Seats |-> [pd[n] EXCEPT !.rosterSlots = EmptyRosterFLEX]]

\* the catch block of syncWithFirebase logs and leaves the local state alone
caughtSyncError(pd) == pd

\* syncWithFirebase up to its await: the flag is set and the update is issued
syncWithFirebase ==
    /\ gameMode = "multiplayer"
    /\ Len(pushes) < MaxPushes
    /\ isSyncing' = TRUE
    /\ pushes' = Append(pushes, sanitizedDoc(gameState, playerData))
    /\ Step("syncWithFirebase", localPlayerNum, "started")
    /\ UNCHANGED <<gameMode, localPlayerNum, gameState, playerData, teams, tasks, modal,
                   remote, events, timers>>

\* a settle whose timer is armed after a successful write only
updateSettledTimerOnSuccessOnly(written) ==
    /\ pushes # <<>>
    /\ pushes' = Tail(pushes)
    /\ timers' = IF written THEN timers + 1 ELSE timers
    /\ IF written
       THEN /\ remote' = Head(pushes)
            /\ events' = events \cup {[doc |-> Head(pushes), own |-> TRUE]}
       ELSE UNCHANGED <<remote, events>>
    /\ Step("syncWithFirebase.settled", localPlayerNum,
            IF written THEN "written" ELSE "failed")
    /\ UNCHANGED <<gameMode, localPlayerNum, gameState, playerData, teams, tasks, modal,
                   isSyncing>>

\* the update settles: written to the store, which notifies this client too, or failed;
\* either way the finally block arms the timer that clears the flag
updateSettled(written) ==
    /\ pushes # <<>>
    /\ pushes' = Tail(pushes)
    /\ timers' = timers + 1
    /\ IF written
       THEN /\ remote' = Head(pushes)
            /\ events' = events \cup {[doc |-> Head(pushes), own |-> TRUE]}
            /\ UNCHANGED playerData
       ELSE /\ playerData' = caughtSyncError(playerData)
            /\ UNCHANGED <<remote, events>>
    /\ Step("syncWithFirebase.settled", localPlayerNum,
            IF written THEN "written" ELSE "failed")
    /\ UNCHANGED <<gameMode, localPlayerNum, gameState, teams, tasks, modal, isSyncing>>

\* setTimeout(() => { isSyncing = false; }, 200) fires
syncTimer ==
    /\ timers > 0
    /\ timers' = timers - 1
    /\ isSyncing' = FALSE
    /\ Step("syncWithFirebase.timer", localPlayerNum, "cleared")
    /\ UNCHANGED <<gameMode, localPlayerNum, gameState, playerData, teams, tasks, modal,
                   remote, pushes, events>>

\* the documents the other client pushes: its seat picked a player this client has not seen
OtherDocs == {PickedDoc(Other(localPlayerNum))}

\* a push of the other client reaches the store, which notifies this client
otherClientWrites(doc) ==
    /\ gameMode = "multiplayer"
    /\ remote # doc
    /\ remote' = doc
    /\ events' = events \cup {[doc |-> doc, own |-> FALSE]}
    /\ Step("otherClient.write", 0, "written")
    /\ UNCHANGED <<gameMode, localPlayerNum, gameState, playerData, teams, tasks, modal,
                   isSyncing, pushes, timers>>

\* the onValue callback runs for a notification
onValueEvent(e) ==
    /\ e \in events
    /\ events' = events \ {e}
    /\ IF isSyncing
       THEN /\ UNCHANGED <<gameState, playerData>>
            /\ Step("onValue", 0, "ignored")
       ELSE /\ applyRemoteData(e.doc)
            /\ Step("onValue", 0, "merged")
    /\ UNCHANGED <<gameMode, localPlayerNum, teams, tasks, modal, isSyncing, remote,
                   pushes, timers>>

\* withFirebaseSync returns at its seat check: no handler, no push
withFirebaseSyncBlocked(n) ==
    /\ Blocked(n)
    /\ Step("withFirebaseSync", n, "blocked")
    /\ UNCHANGED <<gameMode, localPlayerNum, gameState, playerData, teams, tasks, modal>>
    /\ UNCHANGED syncVars

InitSync ==
    /\ gameMode = "multiplayer" /\ localPlayerNum \in Seats
    /\ gameState = [currentPlayer |-> 1, phase |-> "DRAFTING"]
    /\ playerData = [n \in Seats |-> [EmptyProfileFLEX EXCEPT !.name = NameOf(n)]]
    /\ teams = [t \in TeamIds |-> FALSE]
    /\ tasks = {}
    /\ modal = NoModal
    /\ last = [op |-> "init", seat |-> 0, result |-> "ok"]
    /\ steps = 0
    /\ isSyncing = FALSE
    /\ remote = sanitizedDoc(gameState, playerData)
    /\ pushes = <<>>
    /\ events = {}
    /\ timers = 0

NextSync ==
    \/ \E n \in Seats : selectTeam(n)
    \/ \E task \in tasks : selectTeamRolled(task)
    \/ \E task \in tasks, fetched \in BOOLEAN : selectTeamFetched(task, fetched)
    \/ \E n \in Seats, p \in PlayerIds : draftPlayer(n, p)
    \/ \E n \in Seats : withFirebaseSyncBlocked(n)
    \/ syncWithFirebase
    \/ \E written \in BOOLEAN : updateSettled(written)
    \/ syncTimer
    \/ \E doc \in OtherDocs : otherClientWrites(doc)
    \/ \E e \in events : onValueEvent(e)

SpecSync == InitSync /\ [][NextSync]_vars

\* C22: in multiplayer, a change notification produced by this client's own push never
\* modifies this client's gameState or playerData, whenever it is delivered relative to the
\* push, also when two pushes of this client overlap.
C22_OwnNotificationChangesNothing ==
    [][\A e \in events :
          (onValueEvent(e) /\ e.own) => UNCHANGED <<gameState, playerData>>]_vars

\* an own notification that is delivered while the flag is set changes nothing
OwnNotificationIgnoredWhileSyncing ==
    [][\A e \in events :
          (onValueEvent(e) /\ e.own /\ isSyncing) => UNCHANGED <<gameState, playerData>>]_vars

\* an own notification was merged although a later push of this client is still in flight
OwnNotificationMergedDuringPush ==
    /\ last.op = "onValue" /\ last.result = "merged"
    /\ pushes # <<>>
    /\ \A e \in events : e.own

\* C23: in multiplayer, every change notification produced by the other client's write is
\* applied to the local gameState and playerData; none is discarded because it arrives
\* while isSyncing is set.
C23_OtherNotificationApplied ==
    [][\A e \in events :
          (onValueEvent(e) /\ ~e.own) => last'.result = "merged"]_vars

\* the occupants of seat n's roster in a stored document
StoredOccupants(doc, n) ==
    IF "rosterSlots" \in DOMAIN doc.playerData[n]
    THEN {<<k, doc.playerData[n].rosterSlots[k].id>> : k \in DOMAIN doc.playerData[n].rosterSlots}
    ELSE {}

\* C24: in multiplayer, the occupants of seat N's roster in the remote document change
\* only through a push of the client authoritative for seat N; a push by the other client
\* never removes or replaces an occupant of seat N's roster in the remote document.
C24_PushKeepsOtherSeatsRoster ==
    [][updateSettled(TRUE)
          => StoredOccupants(remote', Other(localPlayerNum))
                = StoredOccupants(remote, Other(localPlayerNum))]_vars

\* C27: in multiplayer, an action invoked for seat N on a client whose assigned seat is
\* not N changes no local state and performs no remote write.
C27_ForeignSeatActionIsNoOp ==
    [][(gameMode = "multiplayer" /\ steps' # steps
          /\ last'.seat \in Seats /\ last'.seat # localPlayerNum)
          => /\ last'.result = "blocked"
             /\ UNCHANGED <<gameState, playerData, teams, tasks, modal>>
             /\ UNCHANGED syncVars]_vars

\* a call for the seat on turn was blocked on the other seat's client
C27_Witness ==
    /\ last.op = "withFirebaseSync" /\ last.result = "blocked"
    /\ last.seat = gameState.currentPlayer
    /\ last.seat # localPlayerNum

\* the documents this client has on their way to the store
PushedDocs == {pushes[i] : i \in 1..Len(pushes)}

\* C28: no document written to the remote store by a push contains a fetched roster
\* listing (team.rosterData) for either seat.
C28_PushCarriesNoRosterData ==
    \A doc \in PushedDocs \cup {remote} : \A n \in Seats :
        "team" \in DOMAIN doc.playerData[n] => ~doc.playerData[n].team.rosterData

\* a push is on its way for a seat whose rolled team holds its fetched listing locally
C28_Witness ==
    \E doc \in PushedDocs : \E n \in Seats :
        /\ HasRosterData(playerData[n].team)
        /\ "team" \in DOMAIN doc.playerData[n]
        /\ doc.playerData[n].team.id = playerData[n].team.id

\* C29: when the remote write of a push fails, the error does not propagate (the push
\* completes and arms its timer) and the local gameState and playerData stay exactly as
\* the preceding action set them; the store is not changed.
C29_FailedPushKeepsLocalState ==
    [][updateSettled(FALSE)
          => /\ UNCHANGED <<gameState, playerData, remote>>
             /\ timers' = timers + 1
             /\ last'.result = "failed"]_vars

\* a push failed while the local roster holds a pick the store does not have
C29_Witness ==
    /\ last.op = "syncWithFirebase.settled" /\ last.result = "failed"
    /\ \E n \in Seats :
          /\ Occupants(playerData, n) # {}
          /\ StoredOccupants(remote, n) = {}

(***************************************************************************)
(* game.js: updateFantasyPointsForPlayer, with the helpers of utils.js    *)
(* (getOpponentAndVenue, formatGameDate) and the answers of api.js         *)
(* (getTank01PlayerID, fetchLastGameStats, fetchLastTeamGame).  A game id  *)
(* "YYYYMMDD_AWAY@HOME" is kept as its three parts.  SpecPoints draws the  *)
(* roster from a bounded set and runs the update slot by slot, one step    *)
(* per occupant, the provider's answers being inputs of the step.          *)
(***************************************************************************)
\* position of an abbreviation in the order localeCompare gives the strings
AbbrRank == [BUF |-> 1, KC |-> 2, MIA |-> 3]

GameIds ==
    {[date |-> 20250907, away |-> "KC", home |-> "BUF"],
     [date |-> 20250907, away |-> "KC", home |-> "MIA"],
     [date |-> 20250914, away |-> "MIA", home |-> "KC"]}

\* a.localeCompare(b) > 0 for two game ids
LaterGameId(a, b) ==
    \/ a.date > b.date
    \/ /\ a.date = b.date
       /\ \/ AbbrRank[a.away] > AbbrRank[b.away]
          \/ a.away = b.away /\ AbbrRank[a.home] > AbbrRank[b.home]

\* formatGameDate: the date part of the id, rearranged
formatGameDate(gameID) ==
    [mm |-> (gameID.date \div 100) % 100, dd |-> gameID.date % 100,
     yyyy |-> gameID.date \div 10000]

\* getOpponentAndVenue(stats, teamOverride).opponent
getOpponentAndVenue(gameID, team) ==
    IF team = gameID.away THEN gameID.home
    ELSE IF team = gameID.home THEN gameID.away
    ELSE gameID.away

\* the values the fantasyPoints field takes
NoPoints == [kind |-> "null"]
NotAvailable == [kind |-> "N/A"]
Points(v) == [kind |-> "number", value |-> v]

RawPoints == {0, 7}

\* fetchLastGameStats: null, or the player's latest game with its total
NoResult == [kind |-> "null"]
StatsResults ==
    {NoResult} \cup
    {[kind |-> "stats", gameID |-> g, teamAbv |-> t, fantasyPoints |-> v] :
        g \in GameIds, t \in {"KC", "BUF"}, v \in RawPoints}

\* fetchLastTeamGame: null, or a game of the team (cached, from the player
\* endpoint, or the latest played game of the schedule)
NoGame == [kind |-> "null"]
TeamGames == {NoGame} \cup {[kind |-> "game", gameID |-> g] : g \in GameIds}

\* a credit that never compares the two games
newFantasyPointsAlwaysCredited(originalPosition, found, result, scheduleGame) ==
    IF ~found \/ result = NoResult THEN NotAvailable ELSE Points(result.fantasyPoints)

\* lines 1272-1294: the value computed for one occupant
newFantasyPoints(originalPosition, found, result, scheduleGame) ==
    IF ~found \/ result = NoResult THEN NotAvailable
    ELSE IF originalPosition = "DEF" THEN Points(result.fantasyPoints)
    ELSE LET gameDate == formatGameDate(result.gameID)
             opponent == getOpponentAndVenue(result.gameID, result.teamAbv)
             teamGame == IF scheduleGame # NoGame
                            /\ LaterGameId(scheduleGame.gameID, result.gameID)
                         THEN scheduleGame.gameID ELSE result.gameID
             teamGameDate == formatGameDate(teamGame)
             teamOpp == getOpponentAndVenue(teamGame, result.teamAbv)
         IN  IF opponent # teamOpp \/ gameDate # teamGameDate
             THEN Points(0) ELSE Points(result.fantasyPoints)

rosterSlotsOrder == <<"QB", "RB", "WR1", "WR2", "TE", "Flex", "DEF", "K">>

\* an occupant as assignPlayerToSlot writes it, fantasyPoints: null included
PointsOccupant(p) == [id |-> p, originalPosition |-> Abbr(p), fantasyPoints |-> NoPoints]

PointsRosters ==
    {[k \in DOMAIN EmptyRosterFlex |->
         IF k \in held THEN PointsOccupant(IF k = "DEF" THEN DefId["KC"] ELSE "kc_rb")
         ELSE Null] : held \in SUBSET {"RB", "DEF"}}

InitPoints ==
    /\ gameMode = "local" /\ localPlayerNum = 0
    /\ gameState = [currentPlayer |-> 1, phase |-> "COMPLETE"]
    /\ \E r \in PointsRosters :
          playerData = [n \in Seats |->
              IF n = 1 THEN [name |-> "P1", team |-> NoTeam, rosterSlots |-> r,
                             draftedPlayers |-> <<>>]
              ELSE [name |-> "P2", team |-> NoTeam, draftedPlayers |-> <<>>]]
    /\ teams = [t \in TeamIds |-> FALSE]
    /\ tasks = {}
    /\ modal = NoModal
    /\ last = [op |-> "init", seat |-> 0, result |-> "ok"]
    /\ steps = 0
    /\ SyncIdle

\* the slots of the order, from position i on, that hold an occupant
OccupiedFrom(roster, i) ==
    {j \in i..Len(rosterSlotsOrder) : Truthy(Get(roster, rosterSlotsOrder[j]))}

PointsTask(n, next, pointsUpdated) ==
    [op |-> "updateFantasyPointsForPlayer", seat |-> n, next |-> next,
     pointsUpdated |-> pointsUpdated]

PointsStep(op, n, result, slotId, found, stats, scheduleGame) ==
    /\ steps < MaxSteps
    /\ steps' = steps + 1
    /\ last' = [op |-> op, seat |-> n, result |-> result, slot |-> slotId,
                found |-> found, stats |-> stats, scheduleGame |-> scheduleGame]
    /\ UNCHANGED syncVars

\* the call: no roster, return false at once; otherwise enter the loop
updateFantasyPointsForPlayer(n) ==
    /\ Room
    /\ IF RosterMissing(playerData, n)
       THEN /\ Done("updateFantasyPointsForPlayer", n, FALSE)
            /\ UNCHANGED tasks
       ELSE /\ Done("updateFantasyPointsForPlayer", n, "started")
            /\ tasks' = tasks \cup {PointsTask(n, 1, FALSE)}
    /\ UNCHANGED <<gameMode, localPlayerNum, gameState, playerData, teams, modal>>

\* one pass of the loop body for the next occupied slot, empty slots skipped
updateFantasyPointsForSlot(task) ==
    LET n == task.seat
        occupied == OccupiedFrom(playerData[n].rosterSlots, task.next)
    IN  /\ task \in tasks
        /\ task.op = "updateFantasyPointsForPlayer"
        /\ occupied # {}
        /\ LET j == CHOOSE j \in occupied : \A k \in occupied : j <= k
               slotId == rosterSlotsOrder[j]
               playerInSlot == playerData[n].rosterSlots[slotId]
           IN  \E found \in BOOLEAN, result \in StatsResults, scheduleGame \in TeamGames :
                 LET new == newFantasyPoints(playerInSlot.originalPosition, found,
                                             result, scheduleGame)
                     changed == playerInSlot.fantasyPoints # new
                 IN  /\ playerData' =
                           IF changed
                           THEN [playerData EXCEPT
                                    ![n].rosterSlots[slotId].fantasyPoints = new]
                           ELSE playerData
                     /\ tasks' = (tasks \ {task}) \cup
                                 {PointsTask(n, j + 1, task.pointsUpdated \/ changed)}
                     /\ PointsStep("updateFantasyPointsForPlayer.slot", n, changed,
                                   slotId, found, result, scheduleGame)
        /\ UNCHANGED <<gameMode, localPlayerNum, gameState, teams, modal>>

\* the loop is over: return pointsUpdated
updateFantasyPointsReturn(task) ==
    /\ task \in tasks
    /\ task.op = "updateFantasyPointsForPlayer"
    /\ OccupiedFrom(playerData[task.seat].rosterSlots, task.next) = {}
    /\ tasks' = tasks \ {task}
    /\ Done("updateFantasyPointsForPlayer.return", task.seat, task.pointsUpdated)
    /\ UNCHANGED <<gameMode, localPlayerNum, gameState, playerData, teams, modal>>

NextPoints ==
    \/ \E n \in Seats : updateFantasyPointsForPlayer(n)
    \/ \E task \in tasks : updateFantasyPointsForSlot(task)
    \/ \E task \in tasks : updateFantasyPointsReturn(task)

SpecPoints == InitPoints /\ [][NextPoints]_vars

(***************************************************************************)
(* C31: crediting of fantasy points to a non-DEF occupant                  *)
(***************************************************************************)
\* the step just taken ran the loop body for a non-DEF occupant
NonDefSlotStep ==
    /\ last'.op = "updateFantasyPointsForPlayer.slot"
    /\ playerData[last'.seat].rosterSlots[last'.slot].originalPosition # "DEF"

RecordedPoints == playerData'[last'.seat].rosterSlots[last'.slot].fantasyPoints

\* date and opponent of the player's latest game equal those of game g
SameGame(stats, g) ==
    /\ formatGameDate(stats.gameID) = formatGameDate(g)
    /\ getOpponentAndVenue(stats.gameID, stats.teamAbv) =
       getOpponentAndVenue(g, stats.teamAbv)

\* the game the comparison is made with: the fetched team game when its id
\* sorts after the player's game id, otherwise the player's own game
ComparedGame(stats, scheduleGame) ==
    IF scheduleGame # NoGame /\ LaterGameId(scheduleGame.gameID, stats.gameID)
    THEN scheduleGame.gameID ELSE stats.gameID

\* C31 (as stated): after the loop body ran for a non-DEF occupant, the
\* occupant holds the provider's total when the fetched team game has the
\* date and the opponent of the player's latest game, and 0 in every other case.
C31_CreditOnlyOnFetchedTeamGameMatch ==
    [][NonDefSlotStep =>
         RecordedPoints =
            IF /\ last'.found
               /\ last'.stats # NoResult
               /\ last'.scheduleGame # NoGame
               /\ SameGame(last'.stats, last'.scheduleGame.gameID)
            THEN Points(last'.stats.fantasyPoints) ELSE Points(0)]_vars

\* C31 (amended): when the provider returns the player's latest game, a
\* non-DEF occupant holds the provider's total if that game has the date and
\* the opponent of the compared game, and 0 otherwise; when the id or the
\* stats lookup fails the occupant holds 'N/A'.
C31_CreditOnComparedGameMatch ==
    [][NonDefSlotStep =>
         RecordedPoints =
            IF ~last'.found \/ last'.stats = NoResult THEN NotAvailable
            ELSE IF SameGame(last'.stats, ComparedGame(last'.stats, last'.scheduleGame))
                 THEN Points(last'.stats.fantasyPoints) ELSE Points(0)]_vars

\* a non-DEF occupant was just set to 0 although the provider's total is 7:
\* the team has a later game than the player's
C31_Witness ==
    /\ last.op = "updateFantasyPointsForPlayer.slot"
    /\ last.slot = "RB"
    /\ last.found /\ last.stats # NoResult /\ last.scheduleGame # NoGame
    /\ last.stats.fantasyPoints = 7
    /\ ~SameGame(last.stats, last.scheduleGame.gameID)
    /\ playerData[1].rosterSlots["RB"].fantasyPoints = Points(0)

\* companion: a DEF occupant is credited the total without any comparison
DefOccupantAlwaysCredited ==
    [][/\ last'.op = "updateFantasyPointsForPlayer.slot"
       /\ last'.slot = "DEF" /\ last'.found /\ last'.stats # NoResult
       => RecordedPoints = Points(last'.stats.fantasyPoints)]_vars

(***************************************************************************)
(* C32: what a change of currentPlayer goes with                           *)
(***************************************************************************)
\* the run whose closing updateLayout a settling step performs
SettledTask == CHOOSE t \in tasks : t \notin tasks'

\* the acting seat gained an occupant: in this very step (manual assignment),
\* or during the auto-draft run this step closes
ActingSeatGainedOccupant ==
    LET n == last'.seat IN
    \/ Occupants(playerData', n) \ Occupants(playerData, n) # {}
    \/ last'.op = "autoDraft.settled" /\ last'.result = "drafted"
    \/ /\ last'.op = "autoDraftFullRoster.settled"
       /\ \E k \in SettledTask.empty : Truthy(Get(playerData[n].rosterSlots, k))

\* C32: a step of a draft action (manual pick, autoDraft, autoDraftFullRoster,
\* team roll) changes currentPlayer only if the acting seat gained at least
\* one new occupant; a run that drafts nothing and a rejected action leave
\* currentPlayer unchanged.  Resets and remote merges are not draft actions.
C32_TurnChangesOnlyWithNewOccupant ==
    [][/\ gameState'.currentPlayer # gameState.currentPlayer
       /\ last'.seat \in Seats
       /\ last'.op \notin {"resetPlayer", "confirmName"}
       => ActingSeatGainedOccupant]_vars

\* companion: the part of C32 about rejections; a step that reports a
\* rejection never changes currentPlayer
RejectedStepKeepsTurn ==
    [][last'.result \in {"not_your_turn", "already_in_roster", "drafted_by_opponent",
                         "one_per_roll", "roster_full", "slot_occupied", "no_name",
                         "blocked"}
       => gameState'.currentPlayer = gameState.currentPlayer]_vars

\* companion (SpecAuto): a single auto-draft that found nothing settles with
\* the turn passed whenever updateLayout(true) passes it
NotFoundRunPassesTurn ==
    [][last'.op = "autoDraft.settled" /\ last'.result = "notfound"
       => gameState' = updateLayout(gameState, playerData, TRUE)]_vars

(***************************************************************************)
(* C33: occupants sit in slots their category allows                       *)
(***************************************************************************)
\* the slots a category may occupy; the flex slot under either spelling of its key
AllowedSlots(category) ==
    CASE category = "QB" -> {"QB"}
      [] category = "K" -> {"K"}
      [] category = "DEF" -> {"DEF"}
      [] category = "RB" -> {"RB", "FLEX", "Flex"}
      [] category = "WR" -> {"WR1", "WR2", "FLEX", "Flex"}
      [] category = "TE" -> {"TE", "FLEX", "Flex"}
      [] OTHER -> {}

OccupiedSlots(pd, n) ==
    IF RosterMissing(pd, n) THEN {}
    ELSE {k \in DOMAIN pd[n].rosterSlots : Truthy(pd[n].rosterSlots[k])}

InitPush ==
    /\ gameMode = "multiplayer" /\ localPlayerNum \in Seats
    /\ \E cp \in Seats : gameState = [currentPlayer |-> cp, phase |-> "DRAFTING"]
    /\ \E full \in BOOLEAN :
          playerData = [n \in Seats |->
              IF full /\ n = localPlayerNum
              THEN [EmptyProfileFLEX EXCEPT !.name = NameOf(n),
                                            !.rosterSlots = FullRoster(n)]
              ELSE [EmptyProfileFLEX EXCEPT !.name = NameOf(n)]]
    /\ teams = [t \in TeamIds |-> FALSE]
    /\ tasks = {}
    /\ modal = NoModal
    /\ last = [op |-> "init", seat |-> 0, result |-> "ok"]
    /\ steps = 0
    /\ isSyncing = FALSE
    /\ remote = sanitizedDoc(gameState, playerData)
    /\ pushes = <<>>
    /\ events = {}
    /\ timers = 0

\* the wrapped handler has returned and the wrapper has not yet started its push
PushOwed == gameMode = "multiplayer" /\ last.op = "draftPlayer"

\* a user's call fits: no wrapper is mid-way, and the k steps it needs plus the
\* settling and the timer of every push under way stay within the step budget
UserRoom(k) == ~PushOwed /\ steps + k + 2 * Len(pushes) + timers <= MaxSteps

\* the rejections the wrapped handlers of seat n answer with in the current state:
\* draftPlayer and selectTeam by their guards, confirmName on an empty name
WrappedRejections(n) ==
    ({draftOutcome(gameState, playerData, n, p) : p \in PlayerIds}
        \cup {selectTeamOutcome(gameState, playerData, n)} \cup {"no_name"}) \ {"ok"}

\* withFirebaseSync(handler)(n) when the handler rejects: the handler returns without
\* a change and the wrapper starts the push all the same (lines 1337-1339)
withFirebaseSyncRejected(n, outcome) ==
    /\ ~Blocked(n)
    /\ gameMode = "multiplayer"
    /\ outcome \in WrappedRejections(n)
    /\ Len(pushes) < MaxPushes
    /\ isSyncing' = TRUE
    /\ pushes' = Append(pushes, sanitizedDoc(gameState, playerData))
    /\ Step("withFirebaseSync", n, outcome)
    /\ UNCHANGED <<gameMode, localPlayerNum, gameState, playerData, teams, tasks, modal,
                   remote, events, timers>>

\* withFirebaseSync(draftPlayer)(n, p) when draftPlayer accepts: the handler's part
withFirebaseSyncDraftPlayer(n, p) ==
    /\ Len(pushes) < MaxPushes
    /\ draftOutcome(gameState, playerData, n, p) = "ok"
    /\ draftPlayer(n, p)

\* ... and the wrapper's part: await syncWithFirebase()
withFirebaseSyncPush == PushOwed /\ syncWithFirebase

\* the steps that need no user: the wrapper's push, a settling update, a timer
PushProgress ==
    \/ withFirebaseSyncPush
    \/ ~PushOwed /\ \E written \in BOOLEAN : updateSettled(written)
    \/ ~PushOwed /\ syncTimer

NextPush ==
    \/ \E n \in Seats, p \in PlayerIds : UserRoom(4) /\ withFirebaseSyncDraftPlayer(n, p)
    \/ \E n \in Seats, outcome \in {"not_your_turn", "roster_full", "no_name"} :
          UserRoom(3) /\ withFirebaseSyncRejected(n, outcome)
    \/ \E n \in Seats : UserRoom(1) /\ withFirebaseSyncBlocked(n)
    \/ \E slotId \in SlotKeys : UserRoom(1) /\ chooseSlot(slotId)
    \/ UserRoom(1) /\ hideSlotSelectionModal
    \/ withFirebaseSyncPush
    \/ ~PushOwed /\ \E written \in BOOLEAN : updateSettled(written)
    \/ ~PushOwed /\ syncTimer

SpecPush == InitPush /\ [][NextPush]_vars /\ WF_vars(PushProgress)

(***************************************************************************)
(* C34: every successful pick is pushed without further user action        *)
(***************************************************************************)
\* a pick has just been written on the authoritative client
PickJustMade ==
    /\ gameMode = "multiplayer"
    /\ last.op \in {"draftPlayer", "assignPlayerToSlot"}
    /\ last.result = "ok"
    /\ last.seat = localPlayerNum

\* a push has just been issued, and it carries the roster and the currentPlayer
\* the client holds
PushJustIssued ==
    /\ last.op \in {"syncWithFirebase", "withFirebaseSync"}
    /\ pushes # <<>>
    /\ pushes[Len(pushes)] = sanitizedDoc(gameState, playerData)

\* C34: in multiplayer, after every successful pick on the authoritative
\* client, made directly or through the slot-choice prompt, a push carrying
\* the new roster and the new currentPlayer is eventually issued, the user
\* doing nothing more.
C34_PickIsEventuallyPushed == PickJustMade ~> PushJustIssued

\* companion: a pick that needs no prompt is pushed by the wrapper
DirectPickIsPushed == (PickJustMade /\ last.op = "draftPlayer") ~> PushJustIssued

(***************************************************************************)
(* C35: a rejected action writes nothing to the store                      *)
(***************************************************************************)
RejectionOutcomes ==
    {"not_your_turn", "already_in_roster", "drafted_by_opponent", "one_per_roll",
     "roster_full", "slot_occupied", "no_name", "blocked"}

\* C35: in multiplayer, a step in which an action is rejected (not the
\* seat's turn, roster full, name missing) issues no update to the remote
\* store.
C35_RejectedActionWritesNothing ==
    [][gameMode = "multiplayer" /\ last'.result \in RejectionOutcomes
       => pushes' = pushes /\ remote' = remote]_vars

\* companion: a call the wrapper blocks for a foreign seat issues no update
BlockedCallWritesNothing ==
    [][last'.result = "blocked" => pushes' = pushes /\ remote' = remote]_vars

(***************************************************************************)
(* C36: the isSyncing flag is cleared after every push                     *)
(***************************************************************************)
\* C36: whenever a push has set isSyncing, whether its write succeeds or
\* fails, isSyncing is eventually false again.
C36_SyncFlagEventuallyCleared == isSyncing ~> ~isSyncing

\* a failed push has settled and its timer has cleared the flag
C36_Witness ==
    /\ last.op = "syncWithFirebase.timer"
    /\ ~isSyncing
    /\ pushes = <<>> /\ timers = 0
    /\ events = {}

LocalRoster(n, missing) ==
    [k \in DOMAIN EmptyRosterFlex |->
        IF k = missing THEN Null
        ELSE [id |-> RemoteIds[n][IF k = "Flex" THEN "FLEX" ELSE k],
              originalPosition |-> IF k = "Flex" THEN "WR" ELSE SlotCategory(k)]]

InitLocal ==
    /\ gameMode = "local" /\ localPlayerNum = 0
    /\ \E cp \in Seats : gameState = [currentPlayer |-> cp, phase |-> "DRAFTING"]
    /\ \E missing1 \in {"RB", "Flex", "DEF"}, missing2 \in {"K", "DEF"} :
          playerData = [n \in Seats |->
              [EmptyProfileFlex EXCEPT
                  !.name = NameOf(n),
                  !.rosterSlots = LocalRoster(n, IF n = 1 THEN missing1 ELSE missing2)]]
    /\ teams = [t \in TeamIds |-> FALSE]
    /\ tasks = {}
    /\ modal = NoModal
    /\ last = [op |-> "init", seat |-> 0, result |-> "ok"]
    /\ steps = 0
    /\ SyncIdle

\* a card is clicked and draftPlayer accepts it, or a slot button of the prompt is clicked
SuccessfulPick ==
    \/ \E n \in Seats, p \in PlayerIds : draftPlayer(n, p)
    \/ \E slotId \in SlotKeys : chooseSlot(slotId)

NextLocal ==
    \/ \E n \in Seats, p \in PlayerIds : draftPlayer(n, p)
    \/ \E slotId \in SlotKeys : chooseSlot(slotId)
    \/ hideSlotSelectionModal

SpecLocal == InitLocal /\ [][NextLocal]_vars /\ WF_vars(SuccessfulPick)

(***************************************************************************)
(* C38: a local draft reaches COMPLETE                                     *)
(***************************************************************************)
\* every slot of the local setup holds an occupant, for both seats
AllLocalSlotsOccupied ==
    \A n \in Seats : \A k \in DOMAIN EmptyRosterFlex :
        hasPlayer(playerData[n].rosterSlots, k)

\* C38: in a local game in which the seat holding the turn keeps making
\* successful picks, both rosters become full under isFantasyRosterFull and
\* the phase reaches COMPLETE after finitely many picks.
C38_LocalDraftCompletes ==
    <>(/\ gameState.phase = "COMPLETE"
       /\ isFantasyRosterFull(playerData, 1)
       /\ isFantasyRosterFull(playerData, 2))

\* companion: no local roster is ever full under isFantasyRosterFull, nor the
\* phase COMPLETE, also when every slot of both rosters is occupied
LocalDraftNeverComplete ==
    /\ gameState.phase = "DRAFTING"
    /\ \A n \in Seats : ~isFantasyRosterFull(playerData, n)

(***************************************************************************)
(* C39: a draft in progress has two named seats                            *)
(***************************************************************************)
\* C39: whenever the phase is DRAFTING or COMPLETE both seats have a
\* non-empty display name; resetPlayer of one seat does not leave the game
\* in DRAFTING or COMPLETE with that seat unnamed.
C39_DraftHasBothNames ==
    gameState.phase \in {"DRAFTING", "COMPLETE"} => BothNamed(playerData)

\* companion: only when it leaves both seats unnamed does resetPlayer take
\* the game back to NAME_ENTRY
ResetOfOneSeatKeepsPhase ==
    [][last'.op = "resetPlayer" /\ playerData'[Other(last'.seat)].name # ""
       => gameState'.phase = gameState.phase]_vars

(***************************************************************************)
(* game.js: setupMultiplayerGame, the seat assignment.  SpecJoin has two   *)
(* clients opening the same room.  Each reads the room with get(gameRef),  *)
(* chooses its seat from the snapshot, and then writes its client id under *)
(* players/playerN with update; the read and the write are two separate    *)
(* requests.  In SpecJoin localPlayerNum maps each client to the seat it   *)
(* has given itself (0: none yet) and remote is the room's players node.   *)
(***************************************************************************)
\* the ids getOrCreateClientId gives the two sessions; client_c is an earlier visitor
Clients == {"client_a", "client_b"}

NoClient == "none"

PlayersNodes ==
    {[player1 |-> x, player2 |-> NoClient] : x \in {NoClient, "client_a", "client_c"}}

InitJoin ==
    /\ gameMode = "multiplayer"
    /\ localPlayerNum = [c \in Clients |-> 0]
    /\ remote \in PlayersNodes
    /\ gameState = [currentPlayer |-> 1, phase |-> "NAME_ENTRY"]
    /\ playerData = [n \in Seats |-> EmptyProfileFLEX]
    /\ teams = [t \in TeamIds |-> FALSE]
    /\ tasks = {}
    /\ modal = NoModal
    /\ last = [op |-> "init", seat |-> 0, result |-> "ok"]
    /\ steps = 0
    /\ isSyncing = FALSE
    /\ pushes = <<>>
    /\ events = {}
    /\ timers = 0

JoinTask(c, stage, seat) ==
    [op |-> "setupMultiplayerGame", client |-> c, stage |-> stage, seat |-> seat]

\* lines 1409-1422: the seat a client takes from the snapshot it read; 0 when the room is full
seatFromSnapshot(playersNode, clientId) ==
    IF playersNode.player1 = NoClient \/ playersNode.player1 = clientId THEN 1
    ELSE IF playersNode.player2 = NoClient \/ playersNode.player2 = clientId THEN 2
    ELSE 0

JoinStep(op, n, result) ==
    /\ Step(op, n, result)
    /\ UNCHANGED <<gameMode, gameState, playerData, teams, modal, isSyncing, pushes,
                   events, timers>>

\* the page of client c loads: get(gameRef) is issued
setupMultiplayerGame(c) ==
    /\ localPlayerNum[c] = 0
    /\ \A t \in tasks : t.client # c
    /\ tasks' = tasks \cup {JoinTask(c, "get", 0)}
    /\ JoinStep("setupMultiplayerGame", 0, "get")
    /\ UNCHANGED <<localPlayerNum, remote>>

\* the snapshot arrives: the client sets localPlayerNum and issues its update, or
\* finds the room full and leaves
snapshotArrived(task) ==
    LET c == task.client
        seat == seatFromSnapshot(remote, c)
    IN  /\ task \in tasks
        /\ task.stage = "get"
        /\ IF seat = 0
           THEN /\ tasks' = tasks \ {task}
                /\ JoinStep("setupMultiplayerGame.snapshot", 0, "full")
                /\ UNCHANGED <<localPlayerNum, remote>>
           ELSE /\ localPlayerNum' = [localPlayerNum EXCEPT ![c] = seat]
                /\ tasks' = (tasks \ {task}) \cup {JoinTask(c, "update", seat)}
                /\ JoinStep("setupMultiplayerGame.snapshot", seat, "seated")
                /\ UNCHANGED remote

\* the update of players/playerN reaches the store
presenceWritten(task) ==
    /\ task \in tasks
    /\ task.stage = "update"
    /\ remote' = IF task.seat = 1 THEN [remote EXCEPT !.player1 = task.client]
                 ELSE [remote EXCEPT !.player2 = task.client]
    /\ tasks' = tasks \ {task}
    /\ JoinStep("setupMultiplayerGame.update", task.seat, "written")
    /\ UNCHANGED localPlayerNum

\* the page of a seated client is reloaded: the session keeps its client id, the
\* store keeps the id under the seat (onDisconnect only clears `connected`)
pageReloaded(c) ==
    /\ localPlayerNum[c] # 0
    /\ \A t \in tasks : t.client # c
    /\ localPlayerNum' = [localPlayerNum EXCEPT ![c] = 0]
    /\ JoinStep("reload", localPlayerNum[c], "ok")
    /\ UNCHANGED <<tasks, remote>>

NextJoin ==
    \/ \E c \in Clients : setupMultiplayerGame(c)
    \/ \E c \in Clients : pageReloaded(c)
    \/ \E task \in tasks : snapshotArrived(task)
    \/ \E task \in tasks : presenceWritten(task)

SpecJoin == InitJoin /\ [][NextJoin]_vars

(***************************************************************************)
(* C40: no two clients hold the same seat                                  *)
(***************************************************************************)
\* C40: for every interleaving of two clients with different client ids
\* joining the same room, the two clients never both have the same seat as
\* their localPlayerNum.
C40_NoSharedSeat ==
    \A c, d \in Clients :
        c # d /\ localPlayerNum[c] # 0 => localPlayerNum[c] # localPlayerNum[d]

\* companion: a client whose snapshot is read after the other's update was
\* written takes the other seat
LateJoinerTakesOtherSeat ==
    [][\A c \in Clients :
          /\ localPlayerNum[c] = 0 /\ localPlayerNum'[c] # 0
          /\ \E d \in Clients \ {c} :
                /\ localPlayerNum[d] # 0
                /\ \A t \in tasks : t.client # d
          => \A d \in Clients \ {c} : localPlayerNum'[c] # localPlayerNum[d]]_vars

====
